---- MODULE Spec2Model ----
(***************************************************************************)
(* A model of the retrieval-and-graph core of the legal compliance         *)
(* assistant: the JSON file store, the vector index, the knowledge graph   *)
(* builder and the compliance analyzer.                                    *)
(*                                                                         *)
(* Conventions.                                                            *)
(*  - A Python dict is a sequence of [key, value] records in insertion     *)
(*    order (dict order is observable through iteration and json.dump).    *)
(*  - A file is [exists, content]; content is the sequence of tokens that  *)
(*    json.dump has written so far.                                        *)
(*  - Similarities are integers scaled by SimScale; confidences and risk   *)
(*    scores are in hundredths.                                            *)
(*  - Texts are small integers; the embedding provider maps a text to a    *)
(*    vector of a fixed table.                                             *)
(***************************************************************************)
EXTENDS Integers, Sequences, FiniteSets, TLC

VARIABLES
    vectors_file,   \* data/vectors.json
    search_result,  \* the ranked list the last request returned (empty unless a search)
    idx_op,         \* the last completed vector-index request
    vproc,          \* concurrent requests on the vector store: where each one is
    vlogical,       \* the dict of the last completed save of vectors.json
    ai_extraction,  \* the generation provider's entity extraction, per text
    kg_file,        \* data/knowledge_graph.json
    kg_result,      \* the graph or subgraph the last graph request returned
    kg_op,          \* the last completed graph request
    kproc,          \* the concurrent graph requests: position, graph, outcome
    kbuilt,         \* the graphs the builds so far have produced
    an_provider,    \* the generation provider's answers to the analyzer
    an_issued,      \* analysis ids handed out so far
    an_saved,       \* the persisted analyses, data/compliance_analysis_<id>.json
    an_result,      \* what the last analyze call returned
    an_op,          \* the last analyze call: input, segments found, provider calls
    sc_in,          \* a judgment of the provider
    sc_out,         \* the risk assessment made of it
    sc_done,        \* whether the assessment has been made
    rc_in,          \* an assessment and the findings of a detailed analysis
    rc_out,         \* the recommendations made of them
    rc_done,        \* whether the recommendations have been made
    rag_provider,   \* what the generation request of a question runs into
    rag_result,     \* what the last ask call returned
    rag_op,         \* the last ask call: input, segments retrieved, calls made
    mg_in,          \* a node list and an edge list
    mg_out,         \* the two lists after _merge_similar_entities
    mg_done,        \* whether the merge has run
    ctx_in,         \* the context items of an answer, as content lengths
    ctx_out,        \* the parts _build_context_text made of them
    ctx_done        \* whether the context text has been built

idxVars == <<vectors_file, search_result, idx_op>>
vconcVars == <<vproc, vlogical>>

\* what a request on one component leaves alone
graphVars == <<ai_extraction, kg_file, kg_result, kg_op>>
kconcVars == <<kproc, kbuilt>>
analyzeVars == <<an_provider, an_issued, an_saved, an_result, an_op>>
scoreVars == <<sc_in, sc_out, sc_done>>
recommendVars == <<rc_in, rc_out, rc_done>>
ragVars == <<rag_provider, rag_result, rag_op>>
mergeVars == <<mg_in, mg_out, mg_done>>
contextVars == <<ctx_in, ctx_out, ctx_done>>
notIndexVars == <<vproc, vlogical, graphVars, kconcVars, analyzeVars, scoreVars, recommendVars,
    ragVars, mergeVars, contextVars>>
notVecConcVars == <<search_result, idx_op, graphVars, kconcVars, analyzeVars, scoreVars,
                   recommendVars,
    ragVars, mergeVars, contextVars>>
notGraphVars == <<vectors_file, search_result, idx_op, vproc, vlogical, analyzeVars, scoreVars,
                 recommendVars,
    ragVars, mergeVars, contextVars>>
notAnalyzeVars == <<vectors_file, search_result, idx_op, vproc, vlogical, graphVars, kconcVars,
                    scoreVars, recommendVars,
    ragVars, mergeVars, contextVars>>
notScoreVars == <<vectors_file, search_result, idx_op, vproc, vlogical, graphVars, kconcVars,
                  analyzeVars, recommendVars,
    ragVars, mergeVars, contextVars>>
notRagVars == <<search_result, idx_op, vproc, vlogical, ai_extraction, kg_result, kg_op, kconcVars,
                analyzeVars, scoreVars, recommendVars, mergeVars,
                contextVars>>
notRecommendVars == <<vectors_file, search_result, idx_op, vproc, vlogical, graphVars, kconcVars,
                      analyzeVars, scoreVars,
    ragVars, mergeVars, contextVars>>

notMergeVars == <<idxVars, vconcVars, graphVars, kconcVars, analyzeVars, scoreVars,
                  recommendVars, ragVars, contextVars>>
notContextVars == <<idxVars, vconcVars, graphVars, kconcVars, analyzeVars, scoreVars,
                    recommendVars, ragVars, mergeVars>>

vars == <<vectors_file, search_result, idx_op, vproc, vlogical,
          ai_extraction, kg_file, kg_result, kg_op, kproc, kbuilt,
          an_provider, an_issued, an_saved, an_result, an_op, sc_in, sc_out, sc_done,
          rc_in, rc_out, rc_done, rag_provider, rag_result, rag_op,
          mg_in, mg_out, mg_done, ctx_in, ctx_out, ctx_done>>

-----------------------------------------------------------------------------
(* Bounds of the model *)

\* segments a document processor can hand to the index: ids 1..NumSegments
NumSegments == 3
\* largest top_k a search request carries
MaxTopK == 4
\* similarities are kept to 1/SimScale
SimScale == 100
\* most document ids one build request names
MaxBuildDocs == 2
\* most analyze calls of one run
MaxAnalyses == 2
\* largest confidence a judgment carries, in hundredths
MaxConfidence == 120
\* regulations[:5] : the regulations one analysis checks
MaxChecked == 5

Docs == {"d1", "d2"}
QueryTexts == {1, 2, 3, 4}

-----------------------------------------------------------------------------
(* Generic helpers *)

Min(a, b) == IF a <= b THEN a ELSE b
Max(a, b) == IF a >= b THEN a ELSE b
Range(s) == {s[i] : i \in 1..Len(s)}

\* Python list slicing s[:n] for n >= 0
Take(s, n) == SubSeq(s, 1, Min(n, Len(s)))

RECURSIVE Concat(_)
Concat(ss) == IF Len(ss) = 0 THEN <<>> ELSE Head(ss) \o Concat(Tail(ss))

(* dict operations *)
DictKeys(d) == {d[i].key : i \in 1..Len(d)}
DictGet(d, k) == d[CHOOSE i \in 1..Len(d) : d[i].key = k].value
\* d[k] = v : an existing key keeps its position, a new key goes last
DictSet(d, k, v) ==
    IF k \in DictKeys(d)
    THEN [i \in 1..Len(d) |-> IF d[i].key = k THEN [key |-> k, value |-> v] ELSE d[i]]
    ELSE Append(d, [key |-> k, value |-> v])
\* del d[k]
DictDel(d, k) == SelectSeq(d, LAMBDA e : e.key # k)

-----------------------------------------------------------------------------
(* storage.py : one JSON file per collection, no lock *)

NoValue == [document_id |-> "", segments |-> <<>>, total_segments |-> 0]
TokOpen == [t |-> "{", key |-> "", value |-> NoValue]
TokClose == [t |-> "}", key |-> "", value |-> NoValue]
TokNul == [t |-> "nul", key |-> "", value |-> NoValue]
TokEntry(k, v) == [t |-> "entry", key |-> k, value |-> v]

NoFile == [exists |-> FALSE, content |-> <<>>]

\* json.dump(d, f) : the text written, as tokens
json_dump(d) ==
    <<TokOpen>> \o [i \in 1..Len(d) |-> TokEntry(d[i].key, d[i].value)] \o <<TokClose>>

\* whether json.load accepts the text
json_valid(c) ==
    /\ Len(c) >= 2
    /\ c[1].t = "{"
    /\ c[Len(c)].t = "}"
    /\ \A i \in 2..(Len(c) - 1) : c[i].t = "entry"

RECURSIVE json_object(_, _)
json_object(c, d) ==
    IF Len(c) = 0 THEN d
    ELSE json_object(Tail(c), DictSet(d, Head(c).key, Head(c).value))

\* json.load(f) of a valid text: a repeated key keeps its last value
json_load(c) == json_object(SubSeq(c, 2, Len(c) - 1), <<>>)

JSONDecodeError == "JSONDecodeError"

\* storage.load_vectors : {} when the file does not exist, raises on bad JSON
load_vectors(f) ==
    IF ~f.exists THEN <<>>
    ELSE IF json_valid(f.content) THEN json_load(f.content)
    ELSE JSONDecodeError

\* storage.save_vectors, run without interruption: open(.., "w") and json.dump
save_vectors(d) == [exists |-> TRUE, content |-> json_dump(d)]

-----------------------------------------------------------------------------
(* ai_client.py : the embedding provider *)

EmbeddingTable == << <<1, 0>>, <<0, 1>>, <<3, 4>>, <<0, 0>>, <<4, 3>> >>

\* the provider's vector for one text (the same text gives the same vector)
ProviderEmbedding(text) == EmbeddingTable[((text - 1) % Len(EmbeddingTable)) + 1]

\* AlibabaBailianClient.get_embeddings with a configured key and a provider
\* that answers: one vector per text, in order
get_embeddings(texts) == [i \in 1..Len(texts) |-> ProviderEmbedding(texts[i])]

-----------------------------------------------------------------------------
(* vector_service.py *)

SegmentPool == [i \in 1..NumSegments |-> [id |-> i, content |-> i]]
\* the segment lists a document can be indexed with: runs of consecutive segments
SegmentLists ==
    {<<>>} \cup {SubSeq(SegmentPool, a, b) : a \in 1..NumSegments, b \in 1..NumSegments}

embed_text_segments(segments) ==
    IF Len(segments) = 0 THEN <<>>
    ELSE LET embeddings == get_embeddings([i \in 1..Len(segments) |-> segments[i].content])
         IN [i \in 1..Len(segments) |->
                [id |-> segments[i].id, content |-> segments[i].content,
                 vector |-> embeddings[i], vector_dim |-> Len(embeddings[i])]]

Dot(v, w) ==
    LET n == Min(Len(v), Len(w))
        F[i \in 0..n] == IF i = 0 THEN 0 ELSE F[i - 1] + v[i] * w[i]
    IN F[n]

\* the largest k in lo..hi with k * k * n <= t (lo satisfies it)
RECURSIVE RootBelow(_, _, _, _)
RootBelow(lo, hi, n, t) ==
    IF lo = hi THEN lo
    ELSE LET mid == (lo + hi + 1) \div 2
         IN IF mid * mid * n <= t THEN RootBelow(mid, hi, n, t)
            ELSE RootBelow(lo, mid - 1, n, t)

\* cosine similarity, truncated to 1/SimScale; 0 for an empty or zero vector
calculate_similarity(vector1, vector2) ==
    IF Len(vector1) = 0 \/ Len(vector2) = 0 THEN 0
    ELSE LET d == Dot(vector1, vector2)
             n == Dot(vector1, vector1) * Dot(vector2, vector2)
             a == IF d < 0 THEN -d ELSE d
             r == IF n = 0 THEN 0 ELSE RootBelow(0, SimScale, n, a * a * SimScale * SimScale)
         IN IF d < 0 THEN -r ELSE r

\* list.sort(key=lambda x: x[0], reverse=True): stable, descending
RECURSIVE InsertDesc(_, _)
InsertDesc(x, s) ==
    IF Len(s) = 0 THEN <<x>>
    ELSE IF Head(s).similarity >= x.similarity THEN <<Head(s)>> \o InsertDesc(x, Tail(s))
    ELSE <<x>> \o s

\* a sort that puts a later equal element first
RECURSIVE InsertDescUnstable(_, _)
InsertDescUnstable(x, s) ==
    IF Len(s) = 0 THEN <<x>>
    ELSE IF Head(s).similarity > x.similarity THEN <<Head(s)>> \o InsertDescUnstable(x, Tail(s))
    ELSE <<x>> \o s

RECURSIVE SortDescFrom(_, _)
SortDescFrom(s, acc) ==
    IF Len(s) = 0 THEN acc ELSE SortDescFrom(Tail(s), InsertDesc(Head(s), acc))

SortDescUnstable(s) ==
    LET F[i \in 0..Len(s)] == IF i = 0 THEN <<>> ELSE InsertDescUnstable(s[i], F[i - 1])
    IN F[Len(s)]

sort_reverse(s) == SortDescFrom(s, <<>>)

\* all_segments of find_similar_segments: every document's segments, in dict order
all_segments(vectors_data) ==
    Concat([i \in 1..Len(vectors_data) |-> vectors_data[i].value.segments])

\* find_similar_segments from the query's embedding on: similarities, sort, top_k
rank_segments(vectors_data, query_embedding, top_k) ==
    LET segs == all_segments(vectors_data)
        similarities == [i \in 1..Len(segs) |->
                            [similarity |-> calculate_similarity(query_embedding, segs[i].vector),
                             segment |-> segs[i]]]
        sorted == sort_reverse(similarities)
    IN IF Len(segs) = 0 THEN <<>>
       ELSE [i \in 1..Min(top_k, Len(sorted)) |->
                [id |-> sorted[i].segment.id, content |-> sorted[i].segment.content,
                 vector |-> sorted[i].segment.vector,
                 vector_dim |-> sorted[i].segment.vector_dim,
                 similarity_score |-> sorted[i].similarity]]

\* VectorEmbeddingService.find_similar_segments, given the loaded vectors_data
find_similar_segments(vectors_data, query_text, top_k) ==
    rank_segments(vectors_data, get_embeddings(<<query_text>>)[1], top_k)

\* index_data of create_regulation_index
index_data(doc_id, segments) ==
    LET embedded_segments == embed_text_segments(segments)
    IN [document_id |-> doc_id, segments |-> embedded_segments,
        total_segments |-> Len(embedded_segments)]

\* a partial update: the new segments are added to the ones already stored
put_index_extend(vectors_data, doc_id, segments) ==
    IF doc_id \in DictKeys(vectors_data)
    THEN LET merged == DictGet(vectors_data, doc_id).segments \o embed_text_segments(segments)
         IN DictSet(vectors_data, doc_id,
                    [document_id |-> doc_id, segments |-> merged, total_segments |-> Len(merged)])
    ELSE DictSet(vectors_data, doc_id, index_data(doc_id, segments))

\* vectors_data[doc_id] = index_data
put_index(vectors_data, doc_id, segments) ==
    DictSet(vectors_data, doc_id, index_data(doc_id, segments))

NoOp == [op |-> "none", doc |-> "", segments |-> <<>>, reindexed |-> FALSE,
         query |-> 0, top_k |-> 0]

\* POST /upload-document -> create_regulation_index(doc_id, segments), one request at a time
CreateRegulationIndex(doc_id, segments) ==
    LET vectors_data == load_vectors(vectors_file)
        had == doc_id \in DictKeys(vectors_data)
        old == IF had THEN DictGet(vectors_data, doc_id).segments ELSE <<>>
    IN /\ vectors_data # JSONDecodeError
       /\ vectors_file' = save_vectors(put_index(vectors_data, doc_id, segments))
       /\ idx_op' = [NoOp EXCEPT !.op = "index", !.doc = doc_id, !.segments = segments,
                       !.reindexed = had /\ \E i \in 1..Len(old) :
                                         ~\E j \in 1..Len(segments) : segments[j].id = old[i].id]
       /\ search_result' = <<>>
       /\ UNCHANGED notIndexVars

\* GET /search-regulations, ask, analyze -> find_similar_segments(query, top_k)
FindSimilarSegments(query_text, top_k) ==
    LET vectors_data == load_vectors(vectors_file)
    IN /\ vectors_data # JSONDecodeError
       /\ search_result' = find_similar_segments(vectors_data, query_text, top_k)
       /\ idx_op' = [NoOp EXCEPT !.op = "search", !.query = query_text, !.top_k = top_k]
       /\ UNCHANGED vectors_file
       /\ UNCHANGED notIndexVars

\* DELETE /document/{doc_id} : the vector-store part
DeleteDocument(doc_id) ==
    LET vectors_data == load_vectors(vectors_file)
    IN /\ vectors_data # JSONDecodeError
       /\ doc_id \in DictKeys(vectors_data)
       /\ vectors_file' = save_vectors(DictDel(vectors_data, doc_id))
       /\ idx_op' = [NoOp EXCEPT !.op = "delete", !.doc = doc_id]
       /\ search_result' = <<>>
       /\ UNCHANGED notIndexVars

IndexInit ==
    /\ vectors_file = NoFile
    /\ search_result = <<>>
    /\ idx_op = NoOp

NextIndex ==
    \/ \E d \in Docs, s \in SegmentLists : CreateRegulationIndex(d, s)
    \/ \E q \in QueryTexts, k \in 0..MaxTopK : FindSimilarSegments(q, k)
    \/ \E d \in Docs : DeleteDocument(d)

-----------------------------------------------------------------------------
(* The vector store under concurrent requests.                              *)
(* Two server processes (main.py on port 8000, run_system.py on 8001) or    *)
(* two threads share data/vectors.json.  A request is split at its file     *)
(* operations: the read of load_vectors, the truncating open of             *)
(* save_vectors, and each write of json.dump through the writer's own file  *)
(* offset.                                                                   *)

Procs == {"p1", "p2"}

\* the segment lists of the concurrent requests
ConcSegmentLists == {SubSeq(SegmentPool, 1, 1), SubSeq(SegmentPool, 2, 2)}

Idle == [pc |-> "idle", op |-> "none", doc |-> "", segments |-> <<>>, query |-> 0,
         top_k |-> 0, local |-> <<>>, off |-> 0, outcome |-> "none",
         observed |-> <<>>, allowed |-> [d \in Docs |-> {}]]

\* the entry a dict holds for a document (NoValue: none)
Entry(vectors_data, d) ==
    IF d \in DictKeys(vectors_data) THEN DictGet(vectors_data, d) ELSE NoValue

\* a write of one token at a file offset; a write past the end leaves a hole
WriteAt(content, off, tok) ==
    IF off < Len(content) THEN [content EXCEPT ![off + 1] = tok]
    ELSE content \o [i \in 1..(off - Len(content)) |-> TokNul] \o <<tok>>

\* the writers between their load and the end of their save
InFlight == {w \in Procs : vproc[w].pc \in {"open", "write"}}

\* per document, the entries a reader may see if writes are atomic: the entry
\* of the last completed save, or the entry of a save in progress
WholeEntries == [d \in Docs |->
    {Entry(vlogical, d)} \cup {Entry(vproc[w].local, d) : w \in InFlight}]

\* a request arrives; its provider call (the embedding) touches no shared state
CStartIndex(p, d, s) ==
    /\ vproc[p].pc = "idle"
    /\ vproc' = [vproc EXCEPT ![p] = [Idle EXCEPT !.pc = "load", !.op = "index",
                                                 !.doc = d, !.segments = s]]
    /\ UNCHANGED <<vectors_file, vlogical>>
    /\ UNCHANGED notVecConcVars

CStartSearch(p, q, k) ==
    /\ vproc[p].pc = "idle"
    /\ vproc' = [vproc EXCEPT ![p] = [Idle EXCEPT !.pc = "read", !.op = "search",
                                                 !.query = q, !.top_k = k]]
    /\ UNCHANGED <<vectors_file, vlogical>>
    /\ UNCHANGED notVecConcVars

CStartDelete(p, d) ==
    /\ vproc[p].pc = "idle"
    /\ vproc' = [vproc EXCEPT ![p] = [Idle EXCEPT !.pc = "load", !.op = "delete", !.doc = d]]
    /\ UNCHANGED <<vectors_file, vlogical>>
    /\ UNCHANGED notVecConcVars

\* vectors_data = storage.load_vectors(), then the change of the local dict
CLoad(p) ==
    /\ vproc[p].pc = "load"
    /\ LET f == vectors_file
           bad == f.exists /\ ~json_valid(f.content)
           vd == IF bad THEN <<>> ELSE load_vectors(f)
           me == vproc[p]
       IN vproc' = [vproc EXCEPT ![p] =
            IF bad THEN [me EXCEPT !.pc = "done", !.outcome = JSONDecodeError]
            ELSE IF me.op = "index"
                 THEN [me EXCEPT !.pc = "open", !.local = put_index(vd, me.doc, me.segments)]
            ELSE IF me.doc \in DictKeys(vd)
                 THEN [me EXCEPT !.pc = "open", !.local = DictDel(vd, me.doc)]
            ELSE [me EXCEPT !.pc = "done", !.outcome = "ok"]]
    /\ UNCHANGED <<vectors_file, vlogical>>
    /\ UNCHANGED notVecConcVars

\* open(file_path, "w") : the file is created or truncated
COpen(p) ==
    /\ vproc[p].pc = "open"
    /\ vectors_file' = [exists |-> TRUE, content |-> <<>>]
    /\ vproc' = [vproc EXCEPT ![p].pc = "write", ![p].off = 0]
    /\ UNCHANGED vlogical
    /\ UNCHANGED notVecConcVars

\* json.dump : the next piece of text goes to the file at this writer's offset;
\* after the last one the file is closed
CWrite(p) ==
    /\ vproc[p].pc = "write"
    /\ LET buf == json_dump(vproc[p].local)
           off == vproc[p].off
           last == off + 1 = Len(buf)
       IN /\ vectors_file' = [exists |-> TRUE,
                              content |-> WriteAt(vectors_file.content, off, buf[off + 1])]
          /\ vproc' = [vproc EXCEPT ![p].off = off + 1,
                                    ![p].pc = IF last THEN "done" ELSE "write",
                                    ![p].outcome = IF last THEN "ok" ELSE "none"]
          /\ vlogical' = IF last THEN vproc[p].local ELSE vlogical
    /\ UNCHANGED notVecConcVars

\* find_similar_segments : vectors_data = storage.load_vectors() and the ranking
CRead(p) ==
    /\ vproc[p].pc = "read"
    /\ LET f == vectors_file
           bad == f.exists /\ ~json_valid(f.content)
           vd == IF bad THEN <<>> ELSE load_vectors(f)
       IN vproc' = [vproc EXCEPT ![p].pc = "done",
                                 ![p].outcome = IF bad THEN JSONDecodeError ELSE "ok",
                                 ![p].observed = vd,
                                 ![p].allowed = WholeEntries]
    /\ UNCHANGED <<vectors_file, vlogical>>
    /\ UNCHANGED notVecConcVars

\* the response is returned
CReturn(p) ==
    /\ vproc[p].pc = "done"
    /\ vproc' = [vproc EXCEPT ![p] = Idle]
    /\ UNCHANGED <<vectors_file, vlogical>>
    /\ UNCHANGED notVecConcVars

ConcInit ==
    /\ vproc = [p \in Procs |-> Idle]
    /\ vlogical = <<>>

NextVecConc ==
    \/ \E p \in Procs, d \in Docs, s \in ConcSegmentLists : CStartIndex(p, d, s)
    \/ \E p \in Procs : CStartSearch(p, 3, MaxTopK)
    \/ \E p \in Procs, d \in Docs : CStartDelete(p, d)
    \/ \E p \in Procs : CLoad(p)
    \/ \E p \in Procs : COpen(p)
    \/ \E p \in Procs : CWrite(p)
    \/ \E p \in Procs : CRead(p)
    \/ \E p \in Procs : CReturn(p)

\* two requests, one per process, over an index that may hold document d2
StoredBefore == {NoFile, save_vectors(put_index(<<>>, "d2", SubSeq(SegmentPool, 2, 2)))}

PairInit ==
    /\ vectors_file \in StoredBefore
    /\ search_result = <<>>
    /\ idx_op = NoOp
    /\ vproc = [p \in Procs |-> Idle]
    /\ vlogical = load_vectors(vectors_file)

NextPair ==
    \/ \E p \in Procs, d \in Docs, s \in ConcSegmentLists : CStartIndex(p, d, s)
    \/ \E p \in Procs, d \in Docs : CStartDelete(p, d)
    \/ \E p \in Procs : CLoad(p)
    \/ \E p \in Procs : COpen(p)
    \/ \E p \in Procs : CWrite(p)

-----------------------------------------------------------------------------
(* knowledge_graph.py : entities, relationships, merge, query *)

\* entity_types, in dict order
Categories == <<"legal_articles", "violations", "penalties", "responsible_parties",
                "related_concepts">>
CategorySet == Range(Categories)

entity_types(c) ==
    CASE c = "legal_articles" -> "LEGAL_ARTICLE"
      [] c = "violations" -> "VIOLATION"
      [] c = "penalties" -> "PENALTY"
      [] c = "responsible_parties" -> "RESPONSIBLE_PARTY"
      [] c = "related_concepts" -> "CONCEPT"
      [] OTHER -> "UNKNOWN"

\* labels are tuples of characters
LabA == <<"a", "b", "c", "d", "e">>
LabB == <<"a", "b", "c", "d", "x">>
LabC == <<"a", "b", "c", "y", "x">>
LabF == <<"F", "e", "e">>
LabP == <<"p", "q">>

\* the keys of an extraction result: the five categories, and any other key the
\* model's JSON may carry
ExtractionKeys == CategorySet \cup {"note"}
KeyOrder == Categories \o <<"note">>
NoEntities == [k \in ExtractionKeys |-> <<>>]

\* what extract_legal_entities can return for a text: the parsed JSON object of
\* the provider's answer, or the all-empty dict when there is none
AIOutcomes == {
    NoEntities,
    [NoEntities EXCEPT !["legal_articles"] = <<LabA>>, !["violations"] = <<LabB>>,
                       !["penalties"] = <<LabF>>],
    [NoEntities EXCEPT !["legal_articles"] = <<LabB>>, !["violations"] = <<LabB, LabC>>,
                       !["responsible_parties"] = <<LabP>>],
    [NoEntities EXCEPT !["note"] = <<LabP>>] }

\* _local_entity_extraction : the rules' result on the stored texts
_local_entity_extraction(text) ==
    CASE text = 1 -> [NoEntities EXCEPT !["violations"] = <<LabA>>,
                                        !["related_concepts"] = <<LabF>>]
      [] text = 3 -> [NoEntities EXCEPT !["legal_articles"] = <<LabA>>,
                                        !["violations"] = <<LabC>>]
      [] OTHER -> NoEntities

\* data/segments_<doc>.json as written at upload; "d3" has no file
KGDocs == {"d1", "d2", "d3"}
KGTexts == {1, 2, 3}
load_segments(doc_id) ==
    CASE doc_id = "d1" -> <<[id |-> 1, content |-> 1], [id |-> 2, content |-> 2]>>
      [] doc_id = "d2" -> <<[id |-> 3, content |-> 3]>>
      [] OTHER -> <<>>

\* any(entities.values())
AnyValues(entities) == \E k \in DOMAIN entities : Len(entities[k]) > 0

\* the entity objects one segment contributes, in creation order (without ids)
SegmentEntities(doc_id, segment, ai) ==
    LET answered == ai[segment.content]
        entities == IF ~AnyValues(answered) THEN _local_entity_extraction(segment.content)
                    ELSE answered
    IN Concat([k \in 1..Len(KeyOrder) |->
         IF KeyOrder[k] \in CategorySet
         THEN [j \in 1..Len(entities[KeyOrder[k]]) |->
                 [text |-> entities[KeyOrder[k]][j],
                  category |-> KeyOrder[k],
                  type |-> entity_types(KeyOrder[k]),
                  document_id |-> doc_id,
                  segment_id |-> segment.id,
                  confidence |-> IF AnyValues(entities) THEN 80 ELSE 60]]
         ELSE <<>>])

\* extract_entities_from_document : the entities of a document in creation
\* order, with fresh ids base+1, base+2, ... (uuid4); all_entities[c] is the
\* subsequence of category c.  No stored segments: no entities.
extract_entities_from_document(doc_id, ai, base) ==
    LET segments == load_segments(doc_id)
        made == Concat([i \in 1..Len(segments) |-> SegmentEntities(doc_id, segments[i], ai)])
    IN [i \in 1..Len(made) |->
          [id |-> base + i, text |-> made[i].text, category |-> made[i].category,
           type |-> made[i].type, document_id |-> made[i].document_id,
           segment_id |-> made[i].segment_id, confidence |-> made[i].confidence]]

OfCategory(entities, c) == SelectSeq(entities, LAMBDA e : e.category = c)

\* relation_map : (type1, type2) -> relation
relation_map == {
    <<"legal_articles", "violations", "regulates">>,
    <<"violations", "penalties", "leads_to">>,
    <<"legal_articles", "penalties", "specifies_penalty">>,
    <<"responsible_parties", "violations", "commits">>,
    <<"related_concepts", "legal_articles", "involves">>,
    <<"related_concepts", "violations", "defines">> }

\* a lookup that also answers for the reversed pair
relation_lookup_either_order(type1, type2) ==
    LET hits == {r \in relation_map : {r[1], r[2]} = {type1, type2}}
    IN IF hits = {} THEN "" ELSE (CHOOSE r \in hits : TRUE)[3]

\* _determine_relation_type : relation_map.get((type1, type2), "")
_determine_relation_type(type1, type2) ==
    LET hits == {r \in relation_map : r[1] = type1 /\ r[2] = type2}
    IN IF hits = {} THEN "" ELSE (CHOOSE r \in hits : TRUE)[3]

\* find_relationships : the four nested loops, in dict and list order
find_relationships(entities, base) ==
    LET pairs == Concat([k1 \in 1..Len(Categories) |->
            LET list1 == OfCategory(entities, Categories[k1])
            IN Concat([i1 \in 1..Len(list1) |->
                 Concat([k2 \in 1..Len(Categories) |->
                    IF Categories[k1] = Categories[k2] THEN <<>>
                    ELSE LET list2 == OfCategory(entities, Categories[k2])
                             relation_type ==
                                 _determine_relation_type(Categories[k1], Categories[k2])
                         IN Concat([i2 \in 1..Len(list2) |->
                              IF list1[i1].segment_id = list2[i2].segment_id
                                 /\ relation_type # ""
                              THEN <<[source |-> list1[i1].id, target |-> list2[i2].id,
                                      relation |-> relation_type]>>
                              ELSE <<>>])])])])
    IN [i \in 1..Len(pairs) |->
          [id |-> base + i, source |-> pairs[i].source, target |-> pairs[i].target,
           relation |-> pairs[i].relation, confidence |-> 70]]

\* the nodes build_knowledge_graph makes of a document's entities: by category
\* in dict order, then in list order
entity_nodes(entities) ==
    Concat([k \in 1..Len(Categories) |->
        LET list == OfCategory(entities, Categories[k])
        IN [j \in 1..Len(list) |->
              [id |-> list[j].id, label |-> list[j].text, type |-> list[j].type,
               document_id |-> list[j].document_id, confidence |-> list[j].confidence]]])

\* the loop of build_knowledge_graph over doc_ids: all_nodes and all_edges
RECURSIVE collect(_, _, _, _)
collect(doc_ids, ai, all_nodes, all_edges) ==
    IF Len(doc_ids) = 0 THEN [nodes |-> all_nodes, edges |-> all_edges]
    ELSE LET entities == extract_entities_from_document(Head(doc_ids), ai, Len(all_nodes))
             relationships == find_relationships(entities, Len(all_edges))
         IN collect(Tail(doc_ids), ai, all_nodes \o entity_nodes(entities),
                    all_edges \o relationships)

\* sum(1 for a, b in zip(text1, text2) if a == b)
common_chars(text1, text2) ==
    Cardinality({i \in 1..Min(Len(text1), Len(text2)) : text1[i] = text2[i]})

\* a test that asks for more than the threshold
is_similar_above_threshold(text1, text2) ==
    IF text1 = text2 THEN TRUE
    ELSE IF Len(text1) < 3 \/ Len(text2) < 3 THEN FALSE
    ELSE common_chars(text1, text2) * 10 > 8 * Max(Len(text1), Len(text2))

\* _is_similar_text with threshold 0.8
_is_similar_text(text1, text2) ==
    IF text1 = text2 THEN TRUE
    ELSE IF Len(text1) < 3 \/ Len(text2) < 3 THEN FALSE
    ELSE common_chars(text1, text2) * 10 >= 8 * Max(Len(text1), Len(text2))

\* groups made by label alone, whatever the types
RECURSIVE similar_groups_any_type(_, _, _, _)
similar_groups_any_type(nodes, i, processed, groups) ==
    IF i > Len(nodes) THEN groups
    ELSE IF nodes[i].id \in processed
    THEN similar_groups_any_type(nodes, i + 1, processed, groups)
    ELSE LET later == SelectSeq(SubSeq(nodes, i + 1, Len(nodes)),
                        LAMBDA node2 : /\ node2.id \notin processed
                                       /\ _is_similar_text(nodes[i].label, node2.label))
             group == <<nodes[i]>> \o later
         IN similar_groups_any_type(nodes, i + 1,
                processed \cup {nodes[i].id} \cup {later[j].id : j \in 1..Len(later)},
                IF Len(group) > 1 THEN Append(groups, group) ELSE groups)

\* the first loop of _merge_similar_entities : the groups, first match wins
RECURSIVE similar_groups(_, _, _, _)
similar_groups(nodes, i, processed, groups) ==
    IF i > Len(nodes) THEN groups
    ELSE IF nodes[i].id \in processed THEN similar_groups(nodes, i + 1, processed, groups)
    ELSE LET later == SelectSeq(SubSeq(nodes, i + 1, Len(nodes)),
                        LAMBDA node2 : /\ node2.id \notin processed
                                       /\ nodes[i].type = node2.type
                                       /\ _is_similar_text(nodes[i].label, node2.label))
             group == <<nodes[i]>> \o later
         IN similar_groups(nodes, i + 1,
                processed \cup {nodes[i].id} \cup {later[j].id : j \in 1..Len(later)},
                IF Len(group) > 1 THEN Append(groups, group) ELSE groups)

\* nodes.remove(node) : the first equal element goes
RECURSIVE list_remove(_, _)
list_remove(nodes, node) ==
    IF Len(nodes) = 0 THEN nodes
    ELSE IF Head(nodes) = node THEN Tail(nodes)
    ELSE <<Head(nodes)>> \o list_remove(Tail(nodes), node)

RECURSIVE remove_all(_, _)
remove_all(nodes, gone) ==
    IF Len(gone) = 0 THEN nodes
    ELSE remove_all(IF \E i \in 1..Len(nodes) : nodes[i] = Head(gone)
                    THEN list_remove(nodes, Head(gone)) ELSE nodes,
                    Tail(gone))

\* a rewrite that forgets the target
redirect_source_only(edges, merge_ids, main_id) ==
    [i \in 1..Len(edges) |->
        [edges[i] EXCEPT !.source = IF @ \in merge_ids THEN main_id ELSE @]]

\* a rewrite that drops an edge equal to an earlier one in source, target and
\* relation
redirect_dedup(edges, merge_ids, main_id) ==
    LET rewritten == [i \in 1..Len(edges) |->
                        [edges[i] EXCEPT !.source = IF @ \in merge_ids THEN main_id ELSE @,
                                         !.target = IF @ \in merge_ids THEN main_id ELSE @]]
        first == {i \in 1..Len(rewritten) :
                    ~\E j \in 1..(i - 1) : /\ rewritten[j].source = rewritten[i].source
                                           /\ rewritten[j].target = rewritten[i].target
                                           /\ rewritten[j].relation = rewritten[i].relation}
        F[i \in 0..Len(rewritten)] ==
            IF i = 0 THEN <<>>
            ELSE IF i \in first THEN Append(F[i - 1], rewritten[i]) ELSE F[i - 1]
    IN F[Len(rewritten)]

\* the edge rewrite of one group
redirect(edges, merge_ids, main_id) ==
    [i \in 1..Len(edges) |->
        [edges[i] EXCEPT !.source = IF @ \in merge_ids THEN main_id ELSE @,
                         !.target = IF @ \in merge_ids THEN main_id ELSE @]]

\* a second loop that keeps the last node of each group
RECURSIVE merge_groups_keep_last(_, _, _)
merge_groups_keep_last(groups, nodes, edges) ==
    IF Len(groups) = 0 THEN [nodes |-> nodes, edges |-> edges]
    ELSE LET group == Head(groups)
             main_node == group[Len(group)]
             rest == SubSeq(group, 1, Len(group) - 1)
             merge_ids == {rest[j].id : j \in 1..Len(rest)}
         IN merge_groups_keep_last(Tail(groups), remove_all(nodes, rest),
                                   redirect(edges, merge_ids, main_node.id))

\* the second loop of _merge_similar_entities, group by group
RECURSIVE merge_groups(_, _, _)
merge_groups(groups, nodes, edges) ==
    IF Len(groups) = 0 THEN [nodes |-> nodes, edges |-> edges]
    ELSE LET group == Head(groups)
             main_node == group[1]
             rest == Tail(group)
             merge_ids == {rest[j].id : j \in 1..Len(rest)}
         IN merge_groups(Tail(groups), remove_all(nodes, rest),
                         redirect(edges, merge_ids, main_node.id))

_merge_similar_entities(nodes, edges) ==
    merge_groups(similar_groups(nodes, 1, {}, <<>>), nodes, edges)

\* graph_data of build_knowledge_graph
graph_data(doc_ids, ai) ==
    LET all == collect(doc_ids, ai, <<>>, <<>>)
        merged == _merge_similar_entities(all.nodes, all.edges)
    IN [nodes |-> merged.nodes, edges |-> merged.edges,
        metadata |-> [total_nodes |-> Len(merged.nodes), total_edges |-> Len(merged.edges),
                      document_count |-> Len(doc_ids)]]

(* data/knowledge_graph.json *)
NoNode == [id |-> 0, label |-> <<>>, type |-> "", document_id |-> "", confidence |-> 0]
NoEdge == [id |-> 0, source |-> 0, target |-> 0, relation |-> "", confidence |-> 0]
NoMeta == [total_nodes |-> 0, total_edges |-> 0, document_count |-> 0]
KTok(t) == [t |-> t, node |-> NoNode, edge |-> NoEdge, meta |-> NoMeta]

\* json.dump(graph_data, f) : {"nodes": [..], "edges": [..], "metadata": {..}}
kg_dump(g) ==
    <<KTok("{")>>
    \o [i \in 1..Len(g.nodes) |-> [KTok("node") EXCEPT !.node = g.nodes[i]]]
    \o <<KTok("edges")>>
    \o [i \in 1..Len(g.edges) |-> [KTok("edge") EXCEPT !.edge = g.edges[i]]]
    \o <<[KTok("metadata") EXCEPT !.meta = g.metadata]>>
    \o <<KTok("}")>>

\* whether json.load accepts the text
kg_valid(c) ==
    /\ Len(c) >= 4
    /\ c[1].t = "{"
    /\ c[Len(c)].t = "}"
    /\ c[Len(c) - 1].t = "metadata"
    /\ \E e \in 2..(Len(c) - 2) :
         /\ c[e].t = "edges"
         /\ \A i \in 2..(e - 1) : c[i].t = "node"
         /\ \A i \in (e + 1)..(Len(c) - 2) : c[i].t = "edge"

kg_load(c) ==
    LET ns == SelectSeq(c, LAMBDA k : k.t = "node")
        es == SelectSeq(c, LAMBDA k : k.t = "edge")
    IN [nodes |-> [i \in 1..Len(ns) |-> ns[i].node],
        edges |-> [i \in 1..Len(es) |-> es[i].edge],
        metadata |-> c[Len(c) - 1].meta]

EmptyGraph == [nodes |-> <<>>, edges |-> <<>>, metadata |-> NoMeta]

\* storage.load_knowledge_graph of a readable file: {"nodes": [], "edges": []}
\* when there is no file
load_knowledge_graph(f) == IF ~f.exists THEN EmptyGraph ELSE kg_load(f.content)

\* storage.save_knowledge_graph, run without interruption
save_knowledge_graph(g) == [exists |-> TRUE, content |-> kg_dump(g)]

\* str.lower() on the characters in use
lower_char(ch) ==
    CASE ch = "D" -> "d" [] ch = "E" -> "e" [] ch = "F" -> "f"
      [] OTHER -> ch
lower(s) == [i \in 1..Len(s) |-> lower_char(s[i])]

\* needle in hay
contains(hay, needle) ==
    \E o \in 0..(Len(hay) - Len(needle)) : \A i \in 1..Len(needle) : hay[o + i] = needle[i]

None == "None"

\* the loop of query_knowledge_graph over the edges: related_node_ids grows
\* while the loop runs
RECURSIVE related_edges(_, _, _, _)
related_edges(edges, relation_type, related_node_ids, acc) ==
    IF Len(edges) = 0 THEN [edges |-> acc, ids |-> related_node_ids]
    ELSE LET edge == Head(edges)
             take == /\ (edge.source \in related_node_ids \/ edge.target \in related_node_ids)
                     /\ (relation_type = None \/ edge.relation = relation_type)
         IN related_edges(Tail(edges), relation_type,
                IF take THEN related_node_ids \cup {edge.source, edge.target}
                ELSE related_node_ids,
                IF take THEN Append(acc, edge) ELSE acc)

matches(node, entity_name) == contains(lower(node.label), lower(entity_name))

\* KnowledgeGraphBuilder.query_knowledge_graph on the loaded graph
query_knowledge_graph(g, entity_name, relation_type) ==
    LET matching_nodes == SelectSeq(g.nodes, LAMBDA n : matches(n, entity_name))
        found == related_edges(g.edges, relation_type,
                     {matching_nodes[i].id : i \in 1..Len(matching_nodes)}, <<>>)
    IN [nodes |-> SelectSeq(g.nodes, LAMBDA n : n.id \in found.ids),
        edges |-> found.edges,
        found_matches |-> Len(matching_nodes)]

\* rebuild: the request before this build was a build of the same documents;
\* nodes_before, edges_before: the size of the graph stored when it began
NoKgOp == [op |-> "none", doc_ids |-> <<>>, entity_name |-> <<>>, relation_type |-> None,
           rebuild |-> FALSE, nodes_before |-> 0, edges_before |-> 0]
NoKgResult == [nodes |-> <<>>, edges |-> <<>>, found_matches |-> 0]

EntityNames == {<<"a", "b">>, <<"D", "E">>, <<"z">>}
RelationTypes == {None, "regulates"}
\* lists of distinct document ids
DocIdLists == {l \in UNION {[1..n -> KGDocs] : n \in 0..MaxBuildDocs} :
                 \A i, j \in 1..Len(l) : i # j => l[i] # l[j]}

\* what a build records of the state it started from
build_op(doc_ids) ==
    LET stored == load_knowledge_graph(kg_file)
    IN [NoKgOp EXCEPT !.op = "build", !.doc_ids = doc_ids,
                      !.rebuild = (kg_op.op = "build" /\ kg_op.doc_ids = doc_ids),
                      !.nodes_before = Len(stored.nodes),
                      !.edges_before = Len(stored.edges)]

\* a build that adds its nodes and edges to the stored graph
BuildOntoStoredGraph(doc_ids) ==
    LET g == graph_data(doc_ids, ai_extraction)
        stored == load_knowledge_graph(kg_file)
        nodes == stored.nodes \o g.nodes
        edges == stored.edges \o g.edges
    IN /\ kg_file' = save_knowledge_graph(
                         [nodes |-> nodes, edges |-> edges,
                          metadata |-> [total_nodes |-> Len(nodes), total_edges |-> Len(edges),
                                        document_count |-> Len(doc_ids)]])
       /\ kg_result' = [nodes |-> nodes, edges |-> edges, found_matches |-> 0]
       /\ kg_op' = build_op(doc_ids)
       /\ UNCHANGED <<ai_extraction, kconcVars>>
       /\ UNCHANGED notGraphVars

\* POST /build-knowledge-graph -> build_knowledge_graph(doc_ids), one request at a time
BuildKnowledgeGraph(doc_ids) ==
    LET g == graph_data(doc_ids, ai_extraction)
    IN /\ kg_file' = save_knowledge_graph(g)
       /\ kg_result' = [nodes |-> g.nodes, edges |-> g.edges, found_matches |-> 0]
       /\ kg_op' = build_op(doc_ids)
       /\ UNCHANGED <<ai_extraction, kconcVars>>
       /\ UNCHANGED notGraphVars

\* GET /knowledge-graph/query -> query_knowledge_graph(entity_name, relation_type)
QueryKnowledgeGraph(entity_name, relation_type) ==
    /\ kg_result' = query_knowledge_graph(load_knowledge_graph(kg_file), entity_name,
                                          relation_type)
    /\ kg_op' = [NoKgOp EXCEPT !.op = "query", !.entity_name = entity_name,
                               !.relation_type = relation_type]
    /\ UNCHANGED <<kg_file, ai_extraction, kconcVars>>
    /\ UNCHANGED notGraphVars

GraphInit ==
    /\ kg_file = NoFile
    /\ kg_result = NoKgResult
    /\ kg_op = NoKgOp

\* the provider of one run: an answer for every stored text
ProviderInit == ai_extraction \in [KGTexts -> AIOutcomes]
ProviderIdle == ai_extraction = [t \in KGTexts |-> NoEntities]

NextGraph ==
    \/ \E doc_ids \in DocIdLists : BuildKnowledgeGraph(doc_ids)
    \/ \E n \in EntityNames, r \in RelationTypes : QueryKnowledgeGraph(n, r)

-----------------------------------------------------------------------------
(* knowledge_graph.json under concurrent requests: build_knowledge_graph ends in
   save_knowledge_graph, which opens the file for writing and dumps the text;
   query_knowledge_graph and get_graph_statistics begin with
   load_knowledge_graph; nothing orders them *)

ConcBuildLists == {<<"d1">>, <<"d2">>, <<"d3">>}
GraphReads == {"query", "statistics"}

KIdle == [pc |-> "idle", op |-> "none", graph |-> EmptyGraph, off |-> 0,
          outcome |-> "none", observed |-> EmptyGraph]

\* a write of one piece at a file offset; a write past the end leaves a hole
KWriteAt(content, off, tok) ==
    IF off < Len(content) THEN [content EXCEPT ![off + 1] = tok]
    ELSE content \o [i \in 1..(off - Len(content)) |-> KTok("nul")] \o <<tok>>

\* build_knowledge_graph up to graph_data: extraction, relationships and merge
\* work on the request's own lists
KStartBuild(p, doc_ids) ==
    /\ kproc[p].pc = "idle"
    /\ LET g == graph_data(doc_ids, ai_extraction)
       IN /\ kproc' = [kproc EXCEPT ![p] = [KIdle EXCEPT !.pc = "open", !.op = "build",
                                                        !.graph = g]]
          /\ kbuilt' = kbuilt \cup {g}
    /\ UNCHANGED <<kg_file, ai_extraction, kg_result, kg_op>>
    /\ UNCHANGED notGraphVars

\* a query or a statistics request arrives
KStartRead(p, op) ==
    /\ kproc[p].pc = "idle"
    /\ kproc' = [kproc EXCEPT ![p] = [KIdle EXCEPT !.pc = "read", !.op = op]]
    /\ UNCHANGED <<kg_file, ai_extraction, kg_result, kg_op, kbuilt>>
    /\ UNCHANGED notGraphVars

\* open(file_path, "w") : the file is created or truncated
KOpen(p) ==
    /\ kproc[p].pc = "open"
    /\ kg_file' = [exists |-> TRUE, content |-> <<>>]
    /\ kproc' = [kproc EXCEPT ![p].pc = "write", ![p].off = 0]
    /\ UNCHANGED <<ai_extraction, kg_result, kg_op, kbuilt>>
    /\ UNCHANGED notGraphVars

\* json.dump : the next piece of text goes to the file at this writer's offset;
\* after the last one the file is closed and the build returns
KWrite(p) ==
    /\ kproc[p].pc = "write"
    /\ LET buf == kg_dump(kproc[p].graph)
           off == kproc[p].off
           last == off + 1 = Len(buf)
       IN /\ kg_file' = [exists |-> TRUE,
                         content |-> KWriteAt(kg_file.content, off, buf[off + 1])]
          /\ kproc' = [kproc EXCEPT ![p].off = off + 1,
                                    ![p].pc = IF last THEN "done" ELSE "write",
                                    ![p].outcome = IF last THEN "ok" ELSE "none"]
    /\ UNCHANGED <<ai_extraction, kg_result, kg_op, kbuilt>>
    /\ UNCHANGED notGraphVars

\* graph_data = storage.load_knowledge_graph()
KRead(p) ==
    /\ kproc[p].pc = "read"
    /\ LET bad == kg_file.exists /\ ~kg_valid(kg_file.content)
       IN kproc' = [kproc EXCEPT ![p].pc = "done",
                       ![p].outcome = IF bad THEN JSONDecodeError ELSE "ok",
                       ![p].observed = IF bad THEN EmptyGraph
                                       ELSE load_knowledge_graph(kg_file)]
    /\ UNCHANGED <<kg_file, ai_extraction, kg_result, kg_op, kbuilt>>
    /\ UNCHANGED notGraphVars

\* the response is returned
KReturn(p) ==
    /\ kproc[p].pc = "done"
    /\ kproc' = [kproc EXCEPT ![p] = KIdle]
    /\ UNCHANGED <<kg_file, ai_extraction, kg_result, kg_op, kbuilt>>
    /\ UNCHANGED notGraphVars

GraphConcInit ==
    /\ kproc = [p \in Procs |-> KIdle]
    /\ kbuilt = {}

NextGraphConc ==
    \/ \E p \in Procs, l \in ConcBuildLists : KStartBuild(p, l)
    \/ \E p \in Procs, op \in GraphReads : KStartRead(p, op)
    \/ \E p \in Procs : KOpen(p)
    \/ \E p \in Procs : KWrite(p)
    \/ \E p \in Procs : KRead(p)
    \/ \E p \in Procs : KReturn(p)

-----------------------------------------------------------------------------
(* compliance_analyzer.py : risk assessment, detailed analysis, recommendations.
   Confidences and risk scores are in hundredths, base scores and multipliers
   in tenths. *)

Num(n) == [ty |-> "num", n |-> n]
NotANumber == [ty |-> "str", n |-> 0]

\* a parsed JSON object: the keys it has, and their values
get(d, key, default) == IF key \in d.present THEN d[key] ELSE default

\* what generate_text returned: prose without braces (an error text of the
\* client included), braces around something json.loads rejects, or an object
Response(kind, json) == [kind |-> kind, json |-> json]

JudgmentKeys == {"compliance_status", "risk_level", "confidence"}
Judgment(present, s, l, c) ==
    [present |-> present, compliance_status |-> s, risk_level |-> l, confidence |-> c]
NoJudgment == Judgment({}, "", "", Num(0))

\* AlibabaBailianClient.analyze_compliance : the parsed object, or the fixed
\* dict when there is none
client_analyze_compliance(response) ==
    IF response.kind = "json" THEN response.json
    ELSE Judgment(JudgmentKeys, "Unknown", "Medium", Num(50))

\* base_scores.get(compliance_status, 0.5), in tenths
base_scores_get(compliance_status) ==
    CASE compliance_status = "Compliant" -> 1
      [] compliance_status = "Violation" -> 9
      [] compliance_status = "Risk" -> 6
      [] compliance_status = "Unknown" -> 5
      [] OTHER -> 5

\* a lookup whose default is the largest multiplier
risk_multipliers_get_high(risk_level) ==
    CASE risk_level = "Low" -> 3
      [] risk_level = "Medium" -> 6
      [] OTHER -> 10

\* risk_multipliers.get(risk_level, 0.6), in tenths
risk_multipliers_get(risk_level) ==
    CASE risk_level = "Low" -> 3
      [] risk_level = "Medium" -> 6
      [] risk_level = "High" -> 10
      [] OTHER -> 6

\* round(x, 2) of x = p/10000 in [0,1]: the nearest hundredth; a product that
\* is half a hundredth in decimal lies on one side of it in binary, so either
\* neighbour can come out
round2(p) ==
    LET q == p \div 100
        r == p % 100
    IN IF r < 50 THEN {q} ELSE IF r > 50 THEN {q + 1} ELSE {q, q + 1}

\* _calculate_risk_score for a numeric confidence: the scores it can return
_calculate_risk_score(compliance_status, risk_level, confidence) ==
    LET risk_score == base_scores_get(compliance_status)
                      * risk_multipliers_get(risk_level) * confidence
    IN round2(Min(Max(risk_score, 0), 10000))

\* _assess_compliance_risk : the assessments it can return, or the exception
\* it leaves with; calls counts the generation requests made
_assess_compliance_risk(regulations, response) ==
    IF Len(regulations) = 0
    THEN {[raised |-> "", compliance_status |-> "Unable to Determine",
           risk_level |-> "Medium", risk_score |-> 50, calls |-> 0]}
    ELSE LET analysis_result == client_analyze_compliance(response)
             compliance_status == get(analysis_result, "compliance_status", "Unknown")
             risk_level == get(analysis_result, "risk_level", "Medium")
             confidence == get(analysis_result, "confidence", Num(50))
         IN IF confidence.ty # "num"
            THEN {[raised |-> "TypeError", compliance_status |-> compliance_status,
                   risk_level |-> risk_level, risk_score |-> 0, calls |-> 1]}
            ELSE {[raised |-> "", compliance_status |-> compliance_status,
                   risk_level |-> risk_level, risk_score |-> s, calls |-> 1] :
                    s \in _calculate_risk_score(compliance_status, risk_level, confidence.n)}

CheckKeys == {"is_violation", "has_risk", "violation_reason", "risk_points", "severity"}
Finding(present, v, r, reason, points, severity) ==
    [present |-> present, is_violation |-> v, has_risk |-> r, violation_reason |-> reason,
     risk_points |-> points, severity |-> severity, regulation_content |-> 0,
     similarity_score |-> 0]

\* _check_specific_violation : the parsed object with the regulation attached,
\* or the fixed finding
_check_specific_violation(response, regulation) ==
    LET attached == {"regulation_content", "similarity_score"}
    IN IF response.kind = "json"
       THEN [response.json EXCEPT !.present = @ \cup attached,
                                  !.regulation_content = regulation.content,
                                  !.similarity_score = regulation.similarity_score]
       ELSE [Finding(CheckKeys \cup attached, FALSE, TRUE, "Requires manual review",
                     <<"Automated analysis has uncertainties">>, "moderate")
                EXCEPT !.regulation_content = regulation.content,
                       !.similarity_score = regulation.similarity_score]

\* the loop of _perform_detailed_analysis
RECURSIVE detailed_loop(_, _, _, _, _)
detailed_loop(regulations, checks, violations, warnings, calls) ==
    IF Len(regulations) = 0
    THEN [raised |-> "", violations |-> violations, warnings |-> warnings, calls |-> calls]
    ELSE LET regulation == Head(regulations)
             violation_check ==
                 _check_specific_violation(checks[regulation.content], regulation)
             KeyError == [raised |-> "KeyError", violations |-> violations,
                          warnings |-> warnings, calls |-> calls + 1]
         IN IF ~(regulation.similarity_score * 10 > 7 * SimScale)
            THEN detailed_loop(Tail(regulations), checks, violations, warnings, calls)
            ELSE IF "is_violation" \notin violation_check.present THEN KeyError
            ELSE IF violation_check.is_violation
                 THEN detailed_loop(Tail(regulations), checks,
                                    Append(violations, violation_check), warnings, calls + 1)
            ELSE IF "has_risk" \notin violation_check.present THEN KeyError
            ELSE IF violation_check.has_risk
                 THEN detailed_loop(Tail(regulations), checks, violations,
                                    Append(warnings, violation_check), calls + 1)
            ELSE detailed_loop(Tail(regulations), checks, violations, warnings, calls + 1)

_perform_detailed_analysis(regulations, checks) ==
    detailed_loop(Take(regulations, MaxChecked), checks, <<>>, <<>>, 0)

Line(line, detail) == [line |-> line, detail |-> detail]

\* recommendations that name every violation, severe or not, and keep the
\* general lines first
recommendations_unordered(risk_assessment, detailed_analysis) ==
    LET violations == detailed_analysis.violations
        status_block ==
            IF risk_assessment.compliance_status = "Violation"
            THEN <<Line("stop", <<>>)>>
                 \o [i \in 1..Len(violations) |->
                       Line("serious", <<get(violations[i], "violation_reason", "Not specified")>>)]
            ELSE <<>>
    IN Take(<<Line("general_1", <<>>), Line("general_2", <<>>)>> \o status_block, 8)

\* recommendations without the final slice
recommendations_uncapped(risk_assessment, detailed_analysis) ==
    LET warnings == detailed_analysis.warnings
    IN [i \in 1..Len(warnings) |-> Line("alert", get(warnings[i], "risk_points", <<>>))]
       \o <<Line("review", <<>>), Line("training", <<>>), Line("general_1", <<>>),
            Line("general_2", <<>>)>>

\* _generate_recommendations
_generate_recommendations(risk_assessment, detailed_analysis) ==
    LET violations == detailed_analysis.violations
        warnings == detailed_analysis.warnings
        severe == SelectSeq(violations,
                      LAMBDA v : "severity" \in v.present /\ v.severity = "severe")
        status_block ==
            IF risk_assessment.compliance_status = "Violation"
            THEN <<Line("stop", <<>>)>>
                 \o [i \in 1..Len(severe) |->
                       Line("serious", <<get(severe[i], "violation_reason", "Not specified")>>)]
            ELSE IF risk_assessment.compliance_status = "Risk"
            THEN <<Line("review", <<>>)>>
                 \o [i \in 1..Len(warnings) |->
                       Line("alert", get(warnings[i], "risk_points", <<>>))]
            ELSE <<>>
        level_line ==
            IF risk_assessment.risk_level = "High" THEN Line("counsel", <<>>)
            ELSE IF risk_assessment.risk_level = "Medium" THEN Line("training", <<>>)
            ELSE Line("maintain", <<>>)
    IN Take(status_block \o <<level_line>>
            \o <<Line("general_1", <<>>), Line("general_2", <<>>)>>, 8)

\* the except branch of analyze_compliance
analysis_failed(analysis_id, e) ==
    [analysis_id |-> analysis_id, error |-> e, compliance_status |-> "Analysis Failed",
     risk_level |-> "Unknown"]

\* the result dict of analyze_compliance
analysis_result(analysis_id, business_data, regulations, risk_assessment, detailed_analysis) ==
    LET shown == Take(regulations, 3)
    IN [analysis_id |-> analysis_id,
        business_data |-> business_data,
        compliance_status |-> risk_assessment.compliance_status,
        overall_risk_level |-> risk_assessment.risk_level,
        risk_score |-> risk_assessment.risk_score,
        violated_regulations |-> detailed_analysis.violations,
        warning_items |-> detailed_analysis.warnings,
        recommendations |-> _generate_recommendations(risk_assessment, detailed_analysis),
        relevant_regulations |-> [i \in 1..Len(shown) |-> shown[i].content],
        analysis_details |-> [regulations_checked |-> Len(regulations),
                              violations_found |-> Len(detailed_analysis.violations),
                              warnings_issued |-> Len(detailed_analysis.warnings)]]

\* the judgments of the provider in the model
JudgmentResponses ==
    { Response("text", NoJudgment),
      Response("malformed", NoJudgment),
      Response("json", NoJudgment),
      Response("json", Judgment(JudgmentKeys, "Violation", "High", Num(90))),
      Response("json", Judgment(JudgmentKeys, "Violation", "High", Num(5))),
      Response("json", Judgment(JudgmentKeys, "Risk", "Low", Num(150))),
      Response("json", Judgment(JudgmentKeys, "Compliant", "Medium", Num(0 - 20))),
      Response("json", Judgment(JudgmentKeys, "Maybe", "Severe", Num(50))),
      Response("json", Judgment(JudgmentKeys, "Risk", "Medium", NotANumber)) }

NoFinding == Finding({}, FALSE, FALSE, "", <<>>, "")

\* the per-regulation answers of the provider in the model
CheckResponses ==
    { Response("text", NoFinding),
      Response("malformed", NoFinding),
      Response("json", Finding(CheckKeys, TRUE, TRUE, "r1", <<"k1">>, "severe")),
      Response("json", Finding(CheckKeys, FALSE, TRUE, "", <<"k1", "k2">>, "minor")),
      Response("json", Finding({"is_violation", "has_risk"}, FALSE, FALSE, "", <<>>, "")),
      Response("json", Finding({"has_risk", "severity"}, FALSE, TRUE, "", <<>>, "minor")),
      Response("json", Finding({"is_violation", "severity"}, FALSE, FALSE, "", <<>>, "minor")) }

\* the indexed regulation segments under analysis, and the business texts
AnalyzeSegments == SubSeq(SegmentPool, 2, 3)
AnalyzeContents == {AnalyzeSegments[i].content : i \in 1..Len(AnalyzeSegments)}
AnalyzeIndexes == {NoFile,
                   save_vectors(put_index(<<>>, "d1", <<>>)),
                   save_vectors(put_index(<<>>, "d1", AnalyzeSegments))}
BusinessTexts == {1, 2}

\* what the write of compliance_analysis_<id>.json ends in: the file written,
\* or an exception of open or json.dump, which is caught and printed
SaveOutcomes == {"written", "failed"}

\* _save_analysis_result : the readable analysis files after it
_save_analysis_result(saved, result, outcome) ==
    IF outcome = "written" THEN Append(saved, result) ELSE saved

NoAnOp == [op |-> "none", business_data |-> 0, found |-> 0, calls |-> 0]
NoAnResult == analysis_failed(0, "")

\* ComplianceAnalyzer.analyze_compliance(business_data): retrieval, assessment,
\* detailed analysis, recommendations, and the save of the result
AnalyzeCompliance(business_data) ==
    /\ an_issued < MaxAnalyses
    /\ LET analysis_id == an_issued + 1
           relevant_regulations ==
               find_similar_segments(load_vectors(vectors_file), business_data, 10)
           detailed_analysis ==
               _perform_detailed_analysis(relevant_regulations, an_provider.checks)
       IN \E risk_assessment \in
               _assess_compliance_risk(relevant_regulations, an_provider.judgment) :
            LET failed == IF risk_assessment.raised # "" THEN risk_assessment.raised
                          ELSE detailed_analysis.raised
                result == IF failed # "" THEN analysis_failed(analysis_id, failed)
                          ELSE analysis_result(analysis_id, business_data,
                                   relevant_regulations, risk_assessment, detailed_analysis)
            IN /\ an_result' = result
               /\ \E outcome \in SaveOutcomes :
                    an_saved' = IF failed # "" THEN an_saved
                                ELSE _save_analysis_result(an_saved, result, outcome)
               /\ an_op' = [op |-> "analyze", business_data |-> business_data,
                            found |-> Len(relevant_regulations),
                            calls |-> risk_assessment.calls
                                      + IF risk_assessment.raised # "" THEN 0
                                        ELSE detailed_analysis.calls]
               /\ an_issued' = analysis_id
    /\ UNCHANGED an_provider
    /\ UNCHANGED notAnalyzeVars

AnalyzeInit ==
    /\ an_issued = 0
    /\ an_saved = <<>>
    /\ an_result = NoAnResult
    /\ an_op = NoAnOp

\* the provider of one run: one judgment, and an answer per regulation text
AnalyzeProviderInit ==
    an_provider \in [judgment : JudgmentResponses, checks : [AnalyzeContents -> CheckResponses]]
AnalyzeProviderIdle ==
    an_provider = [judgment |-> Response("text", NoJudgment),
                   checks |-> [c \in AnalyzeContents |-> Response("text", NoFinding)]]

NextAnalyze == \E business_data \in BusinessTexts : AnalyzeCompliance(business_data)

(* the risk assessment as a function of the provider's judgment *)

Statuses == {"Compliant", "Violation", "Risk", "Unknown", "Unable to Determine", "Maybe"}
Levels == {"Low", "Medium", "High", "Severe"}
Confidences == {Num(c) : c \in (0 - 20)..MaxConfidence} \cup {NotANumber}

\* every judgment object: each key either missing or with one of the values
JudgmentObjects ==
    {Judgment(p, s, l, c) : p \in SUBSET JudgmentKeys, s \in Statuses \cup {""},
                            l \in Levels \cup {""}, c \in Confidences \cup {Num(0)}}
WellFormed(j) ==
    /\ ("compliance_status" \in j.present) = (j.compliance_status # "")
    /\ ("risk_level" \in j.present) = (j.risk_level # "")
    /\ ("confidence" \notin j.present) => j.confidence = Num(0)

ScoreInputs ==
    {Response("json", j) : j \in {x \in JudgmentObjects : WellFormed(x)}}
    \cup {Response("text", NoJudgment), Response("malformed", NoJudgment)}

NoAssessment == [raised |-> "", compliance_status |-> "", risk_level |-> "",
                 risk_score |-> 0, calls |-> 0]

\* _assess_compliance_risk with regulations found, for the drawn judgment
AssessComplianceRisk ==
    /\ ~sc_done
    /\ sc_out' \in _assess_compliance_risk(<<SegmentPool[1]>>, sc_in)
    /\ sc_done' = TRUE
    /\ UNCHANGED sc_in
    /\ UNCHANGED notScoreVars

ScoreInit ==
    /\ sc_out = NoAssessment
    /\ sc_done = FALSE
ScoreInputInit == sc_in \in ScoreInputs
ScoreInputIdle == sc_in = Response("text", NoJudgment)

NextScore == AssessComplianceRisk

-----------------------------------------------------------------------------
(* _generate_recommendations as a function of the assessment and the findings *)

\* findings the detailed analysis can hand over: with and without the keys
\* that the recommendations read through .get
ViolationFindings ==
    { Finding(CheckKeys, TRUE, TRUE, "r1", <<"k1">>, "severe"),
      Finding(CheckKeys \ {"violation_reason"}, TRUE, TRUE, "", <<>>, "severe"),
      Finding(CheckKeys \ {"severity"}, TRUE, FALSE, "r2", <<>>, "") }
WarningFindings ==
    { Finding(CheckKeys, FALSE, TRUE, "", <<"k1", "k2">>, "minor"),
      Finding(CheckKeys \ {"risk_points"}, FALSE, TRUE, "", <<>>, "moderate") }

SeqsUpTo(S, n) == UNION {[1..k -> S] : k \in 0..n}

\* the findings of one analysis: at most MaxChecked regulations are checked and
\* each gives at most one finding
FindingLists ==
    {[violations |-> v, warnings |-> w] :
        v \in SeqsUpTo(ViolationFindings, MaxChecked),
        w \in SeqsUpTo(WarningFindings, MaxChecked)}
RecommendInputs ==
    {[risk_assessment |-> [compliance_status |-> s, risk_level |-> l],
      detailed_analysis |-> d] :
        s \in {"Violation", "Risk", "Compliant"}, l \in {"High", "Medium", "Low", "Severe"},
        d \in {x \in FindingLists : Len(x.violations) + Len(x.warnings) <= MaxChecked}}

NoRecommendInput ==
    [risk_assessment |-> [compliance_status |-> "", risk_level |-> ""],
     detailed_analysis |-> [violations |-> <<>>, warnings |-> <<>>]]

\* recommendations = self._generate_recommendations(risk_assessment, detailed_analysis)
GenerateRecommendations ==
    /\ ~rc_done
    /\ rc_out' = _generate_recommendations(rc_in.risk_assessment, rc_in.detailed_analysis)
    /\ rc_done' = TRUE
    /\ UNCHANGED rc_in
    /\ UNCHANGED notRecommendVars

RecommendInit ==
    /\ rc_out = <<>>
    /\ rc_done = FALSE
RecommendInputInit == rc_in \in RecommendInputs
RecommendInputIdle == rc_in = NoRecommendInput

NextRecommend == GenerateRecommendations

-----------------------------------------------------------------------------
(* rag_service.py : retrieval, graph enrichment, answer generation.
   A question is its text (which the embedding provider sees), the characters
   the graph query matches labels against, and whether it has more than 10
   characters. Confidences are in hundredths. *)

\* what requests.post and the lines after it can do in generate_text
GenerationOutcomes == {"answer", "request_error", "timeout", "bad_status", "format_error",
                       "not_json"}
GenerationFailures == GenerationOutcomes \ {"answer"}

\* AlibabaBailianClient.generate_text with a configured key: the texts it can
\* return or the exception it can leave with. A body that is not JSON makes
\* response.json() raise; whether that error is a RequestException depends on
\* the installed requests library.
generate_text(outcome) ==
    CASE outcome = "answer" -> {[raised |-> FALSE, text |-> "answer"]}
      [] outcome \in {"request_error", "timeout", "bad_status"} ->
            {[raised |-> FALSE, text |-> "API call failed"]}
      [] outcome = "format_error" ->
            {[raised |-> FALSE, text |-> "API response format error"]}
      [] OTHER -> {[raised |-> FALSE, text |-> "API call failed"],
                   [raised |-> TRUE, text |-> "ValueError"]}

\* a retrieval that keeps every segment, whatever its similarity
retrieve_unfiltered(vectors_data, question, top_k) ==
    Take(find_similar_segments(vectors_data, question.text, top_k * 2), top_k)

\* retrieve_relevant_documents with similarity_threshold 0.3
retrieve_relevant_documents(vectors_data, question, top_k) ==
    LET similar_segments == find_similar_segments(vectors_data, question.text, top_k * 2)
        filtered_segments ==
            SelectSeq(similar_segments, LAMBDA s : s.similarity_score * 10 >= 3 * SimScale)
    IN Take(filtered_segments, top_k)

\* a context item: a retrieved segment, or the item made of the graph query
ContextItem(segment) ==
    [id |-> segment.id, content |-> segment.content,
     similarity_x10 |-> segment.similarity_score * 10, source |-> "", has_source |-> FALSE]
kg_context == [id |-> 0, content |-> 0, similarity_x10 |-> 9 * SimScale,
               source |-> "knowledge_graph", has_source |-> TRUE]

\* enhance_context_with_kg : a copy of the list, with the graph item in front
\* when the graph query gives a node; unchanged when the query raises
enhance_context_with_kg(f, question, retrieved_docs) ==
    IF f.exists /\ ~kg_valid(f.content) THEN retrieved_docs
    ELSE IF Len(query_knowledge_graph(load_knowledge_graph(f), question.name, None).nodes) > 0
    THEN <<kg_context>> \o retrieved_docs
    ELSE retrieved_docs

\* an enrichment that inserts into the caller's list: the list after the call
retrieved_docs_aliased(f, question, retrieved_docs) ==
    enhance_context_with_kg(f, question, retrieved_docs)

\* the caller's list after enhance_context_with_kg has returned: the item was
\* inserted into retrieved_docs.copy()
retrieved_docs_after(f, question, retrieved_docs) == retrieved_docs

\* round(x, 2) of x = num / den >= 0: a value half-way between two hundredths
\* in decimal can come out as either neighbour
round2_ratio(num, den) ==
    LET q == (num * 100) \div den
        r == (num * 100) % den
    IN IF 2 * r < den THEN {q} ELSE IF 2 * r > den THEN {q + 1} ELSE {q, q + 1}

RECURSIVE SumSimilarity(_)
SumSimilarity(docs) ==
    IF Len(docs) = 0 THEN 0 ELSE Head(docs).similarity_x10 + SumSimilarity(Tail(docs))

\* _calculate_answer_confidence
_calculate_answer_confidence(context_docs, question) ==
    IF Len(context_docs) = 0 THEN {0}
    ELSE LET n == Len(context_docs)
             \* avg_similarity * 0.5 + min(n / 5, 1) * 0.3 + coverage * 0.2, over
             \* the common denominator 100 * 10 * SimScale * n
             num == SumSimilarity(context_docs) * 50
                    + (Min(n, 5) * 6 + IF question.long THEN 16 ELSE 10) * 10 * SimScale * n
         IN round2_ratio(num, 100 * 10 * SimScale * n)

\* the sources loop of generate_answer
answer_sources(context_docs) ==
    LET listed == SelectSeq(Take(context_docs, 3),
                      LAMBDA doc : ~(doc.has_source /\ doc.source = "knowledge_graph"))
    IN [i \in 1..Len(listed) |->
          [content |-> listed[i].content, similarity_x10 |-> listed[i].similarity_x10,
           document_id |-> IF "document_id" \in DOMAIN listed[i]
                           THEN listed[i].document_id ELSE "unknown"]]

\* generate_answer : the answers it can return
generate_answer(question, context_docs, outcome) ==
    UNION {IF g.raised
           THEN {[answer |-> "Sorry, an error occurred", confidence |-> 0, sources |-> <<>>,
                  context_used |-> 0]}
           ELSE {[answer |-> g.text, confidence |-> c, sources |-> answer_sources(context_docs),
                  context_used |-> Len(context_docs)] :
                    c \in _calculate_answer_confidence(context_docs, question)}
           : g \in generate_text(outcome)}

RagQuestions ==
    { [text |-> 1, name |-> <<"D", "E">>, long |-> FALSE],
      [text |-> 3, name |-> <<"D", "E">>, long |-> TRUE],
      [text |-> 3, name |-> <<"z">>, long |-> TRUE],
      [text |-> 4, name |-> <<"a">>, long |-> FALSE] }

\* the stored indexes and graphs a question is asked over
RagIndexes == {NoFile,
               save_vectors(put_index(<<>>, "d1", SubSeq(SegmentPool, 1, 3))),
               save_vectors(put_index(put_index(<<>>, "d1", SubSeq(SegmentPool, 1, 1)),
                                      "d2", SubSeq(SegmentPool, 2, 3)))}
RagGraphs == {NoFile,
              [exists |-> TRUE, content |-> <<>>],
              save_knowledge_graph(graph_data(<<"d1">>, [t \in KGTexts |-> NoEntities]))}

NoRagOp == [op |-> "none", question |-> [text |-> 0, name |-> <<>>, long |-> FALSE],
            top_k |-> 0, use_kg |-> FALSE, retrieved |-> 0, kg_queries |-> 0,
            generations |-> 0, enhanced_docs |-> <<>>, retrieved_docs |-> <<>>]
NoRagResult == [answer |-> "", confidence |-> 0, sources |-> <<>>, context_used |-> 0]

\* RAGService.ask_question(question, top_k, use_kg)
AskQuestion(question, top_k, use_kg) ==
    LET found == retrieve_relevant_documents(load_vectors(vectors_file), question, top_k)
        retrieved_docs == [i \in 1..Len(found) |-> ContextItem(found[i])]
        enhanced_docs == IF use_kg THEN enhance_context_with_kg(kg_file, question, retrieved_docs)
                         ELSE retrieved_docs
        after == IF use_kg THEN retrieved_docs_after(kg_file, question, retrieved_docs)
                 ELSE retrieved_docs
        op == [NoRagOp EXCEPT !.op = "ask", !.question = question, !.top_k = top_k,
                              !.use_kg = use_kg, !.retrieved = Len(retrieved_docs)]
    IN /\ IF Len(retrieved_docs) = 0
          THEN /\ rag_result' = [answer |-> "no relevant regulatory documents found",
                                 confidence |-> 0, sources |-> <<>>, context_used |-> 0]
               /\ rag_op' = op
          ELSE /\ \E result \in generate_answer(question, enhanced_docs, rag_provider) :
                    rag_result' = [answer |-> result.answer, confidence |-> result.confidence,
                                   sources |-> result.sources,
                                   context_used |-> result.context_used,
                                   query |-> question, retrieval_count |-> Len(after)]
               /\ rag_op' = [op EXCEPT !.kg_queries = IF use_kg THEN 1 ELSE 0,
                                       !.generations = 1,
                                       !.enhanced_docs = enhanced_docs,
                                       !.retrieved_docs = after]
       /\ UNCHANGED <<vectors_file, kg_file, rag_provider>>
       /\ UNCHANGED notRagVars

RagInit ==
    /\ rag_result = NoRagResult
    /\ rag_op = NoRagOp
RagProviderInit == rag_provider \in GenerationOutcomes
RagProviderIdle == rag_provider = "answer"

NextRag == \E question \in RagQuestions, use_kg \in BOOLEAN : AskQuestion(question, 5, use_kg)

-----------------------------------------------------------------------------
(* The vector index without an embedding provider: no API key configured    *)
(* (api_key = "dummy_key"), a request that fails, or a response without      *)
(* output.embeddings.  get_embeddings then makes each vector from            *)
(* random.random().                                                          *)

\* the vectors [random.random() for _ in range(vector_dim)] stands for in the
\* model: components >= 0, one vector per direction the similarities tell apart
RandomVectors == {<<1, 0>>, <<0, 1>>, <<3, 4>>, <<4, 3>>}

\* get_embeddings(texts) without a provider: the vector lists it can return
get_embeddings_unavailable(texts) == [1..Len(texts) -> RandomVectors]

DegradedDocs == {"d1", "d2"}
DegradedQueries == {1, 2}

\* create_regulation_index(doc_id, segments) without a provider
DegradedIndex(doc_id, segments) ==
    LET vectors_data == load_vectors(vectors_file)
    IN /\ vectors_data # JSONDecodeError
       /\ \E embeddings \in get_embeddings_unavailable(
                                [i \in 1..Len(segments) |-> segments[i].content]) :
             LET embedded_segments ==
                     [i \in 1..Len(segments) |->
                         [id |-> segments[i].id, content |-> segments[i].content,
                          vector |-> embeddings[i], vector_dim |-> Len(embeddings[i])]]
             IN vectors_file' = save_vectors(DictSet(vectors_data, doc_id,
                                   [document_id |-> doc_id, segments |-> embedded_segments,
                                    total_segments |-> Len(embedded_segments)]))
       /\ idx_op' = [NoOp EXCEPT !.op = "index", !.doc = doc_id, !.segments = segments]
       /\ search_result' = <<>>
       /\ UNCHANGED notIndexVars

\* find_similar_segments(query, top_k) without a provider: returns normally
DegradedSearch(query_text, top_k) ==
    LET vectors_data == load_vectors(vectors_file)
    IN /\ vectors_data # JSONDecodeError
       /\ \E embeddings \in get_embeddings_unavailable(<<query_text>>) :
             search_result' = rank_segments(vectors_data, embeddings[1], top_k)
       /\ idx_op' = [NoOp EXCEPT !.op = "search", !.query = query_text, !.top_k = top_k]
       /\ UNCHANGED vectors_file
       /\ UNCHANGED notIndexVars

NextDegraded ==
    \/ \E d \in DegradedDocs, s \in ConcSegmentLists : DegradedIndex(d, s)
    \/ \E q \in DegradedQueries, k \in 1..2 : DegradedSearch(q, k)

-----------------------------------------------------------------------------
(* _merge_similar_entities as a function of the node list and the edge list *)

\* most nodes of a list handed to the merge
MaxMergeNodes == 3
\* longest label made of the letters a and b
MaxLabelLen == 4

MergeLabels == {LabA, LabB, LabC, LabP}
MergeTypes == {"VIOLATION", "PENALTY"}

\* node i of a list has id i, as the uuid4 ids of a build are distinct
MergeNode(i, label, type) ==
    [id |-> i, label |-> label, type |-> type, document_id |-> "d1", confidence |-> 80]
MergeEdge(i, source, target) ==
    [id |-> i, source |-> source, target |-> target, relation |-> "leads_to", confidence |-> 70]

\* edges between the first, the second and the last of n nodes
MergeEdgeBase(n) ==
    IF n = 0 THEN <<>>
    ELSE <<MergeEdge(1, 1, n), MergeEdge(2, Min(2, n), n), MergeEdge(3, n, 1),
           MergeEdge(4, 1, Min(2, n))>>

\* the lists made of n nodes with labels and types f and the edges in keep
MergeInput(n, f, keep) ==
    [nodes |-> [i \in 1..n |-> MergeNode(i, f[i][1], f[i][2])],
     edges |-> SelectSeq(MergeEdgeBase(n), LAMBDA e : e.id \in keep)]

PriceFixing == <<"p", "r", "i", "c", "e", " ", "f", "i", "x", "i", "n", "g">>
PriceFixings == PriceFixing \o <<"s">>
SimilarLabels ==
    UNION {[1..n -> {"a", "b"}] : n \in 0..MaxLabelLen}
        \cup {LabA, LabB, LabC, <<"a", "b", "c", "d">>, <<"a", "b", "c", "x">>,
              PriceFixing, PriceFixings}

NoMergeInput == [nodes |-> <<>>, edges |-> <<>>]

\* self._merge_similar_entities(all_nodes, all_edges): both lists changed in place
MergeSimilarEntities ==
    /\ ~mg_done
    /\ mg_out' = _merge_similar_entities(mg_in.nodes, mg_in.edges)
    /\ mg_done' = TRUE
    /\ UNCHANGED mg_in
    /\ UNCHANGED notMergeVars

MergeInit ==
    /\ mg_out = NoMergeInput
    /\ mg_done = FALSE
\* every list of up to MaxMergeNodes nodes, with every choice of the edges
MergeInputInit ==
    \E n \in 0..MaxMergeNodes :
        \E f \in [1..n -> MergeLabels \X MergeTypes],
           keep \in SUBSET (1..Len(MergeEdgeBase(n))) :
            mg_in = MergeInput(n, f, keep)
\* two nodes, for every pair of labels and of types
SimilarInputInit ==
    \E l1 \in SimilarLabels, l2 \in SimilarLabels, t1 \in MergeTypes, t2 \in MergeTypes :
        mg_in = [nodes |-> <<MergeNode(1, l1, t1), MergeNode(2, l2, t2)>>, edges |-> <<>>]
MergeInputIdle == mg_in = NoMergeInput

NextMerge == MergeSimilarEntities

-----------------------------------------------------------------------------
(* _build_context_text as a function of the context items *)

\* most context items of one answer
MaxContextItems == 3
\* max_length of _build_context_text, and the least remainder worth filling
max_length == 3000
MinRemaining == 100

\* len(f"[Document {i}] "), for i below 10
PrefixLen == 13

\* the content lengths of the model: contents that leave 101, 100 and 99
\* characters of the budget after the first item, and shorter ones
ContentLengths == {50, 100, 2886, 2887, 2888, 3100}

\* a part of the context text: the item it is made of, the characters of its
\* doc_text that were kept, and whether "..." follows them
ContextPart(i, kept, ellipsis) == [doc |-> i, kept |-> kept, ellipsis |-> ellipsis]

\* the loop of _build_context_text from item i on
RECURSIVE context_loop(_, _, _, _)
context_loop(context_docs, i, context_parts, current_length) ==
    IF i > Len(context_docs) THEN context_parts
    ELSE LET doc_text == PrefixLen + context_docs[i]
         IN IF current_length + doc_text > max_length
            THEN LET remaining_length == max_length - current_length
                 IN IF remaining_length > MinRemaining
                    THEN Append(context_parts, ContextPart(i, remaining_length, TRUE))
                    ELSE context_parts
            ELSE context_loop(context_docs, i + 1,
                              Append(context_parts, ContextPart(i, doc_text, FALSE)),
                              current_length + doc_text)

_build_context_text(context_docs) == context_loop(context_docs, 1, <<>>, 0)

ContextInputs == UNION {[1..n -> ContentLengths] : n \in 0..MaxContextItems}

\* generate_answer: context_text = self._build_context_text(context_docs)
BuildContextText ==
    /\ ~ctx_done
    /\ ctx_out' = _build_context_text(ctx_in)
    /\ ctx_done' = TRUE
    /\ UNCHANGED ctx_in
    /\ UNCHANGED notContextVars

ContextInit ==
    /\ ctx_out = <<>>
    /\ ctx_done = FALSE
ContextInputInit == ctx_in \in ContextInputs
ContextInputIdle == ctx_in = <<>>

NextContext == BuildContextText

-----------------------------------------------------------------------------
(* Specifications *)

Init ==
    /\ IndexInit
    /\ ConcInit
    /\ GraphInit
    /\ ProviderIdle
    /\ GraphConcInit
    /\ AnalyzeInit
    /\ AnalyzeProviderIdle
    /\ ScoreInit
    /\ ScoreInputIdle
    /\ RecommendInit
    /\ RecommendInputIdle
    /\ RagInit
    /\ MergeInit
    /\ MergeInputIdle
    /\ ContextInit
    /\ ContextInputIdle
    /\ RagProviderIdle

\* the vector index, one request at a time
SpecIndex == Init /\ [][NextIndex]_vars

\* the knowledge graph, one request at a time, for every provider
InitAnyProvider ==
    /\ IndexInit
    /\ ConcInit
    /\ GraphInit
    /\ GraphConcInit
    /\ ProviderInit
    /\ AnalyzeInit
    /\ AnalyzeProviderIdle
    /\ ScoreInit
    /\ ScoreInputIdle
    /\ RecommendInit
    /\ RecommendInputIdle
    /\ RagInit
    /\ MergeInit
    /\ MergeInputIdle
    /\ ContextInit
    /\ ContextInputIdle
    /\ RagProviderIdle

SpecGraph == InitAnyProvider /\ [][NextGraph]_vars

\* analyze over every index and every provider of the model
InitAnalyze ==
    /\ vectors_file \in AnalyzeIndexes
    /\ search_result = <<>>
    /\ idx_op = NoOp
    /\ ConcInit
    /\ GraphInit
    /\ ProviderIdle
    /\ GraphConcInit
    /\ AnalyzeInit
    /\ AnalyzeProviderInit
    /\ ScoreInit
    /\ ScoreInputIdle
    /\ RecommendInit
    /\ RecommendInputIdle
    /\ RagInit
    /\ MergeInit
    /\ MergeInputIdle
    /\ ContextInit
    /\ ContextInputIdle
    /\ RagProviderIdle

SpecAnalyze == InitAnalyze /\ [][NextAnalyze]_vars

\* the risk assessment over every judgment of the model
InitScore ==
    /\ IndexInit
    /\ ConcInit
    /\ GraphInit
    /\ ProviderIdle
    /\ GraphConcInit
    /\ AnalyzeInit
    /\ AnalyzeProviderIdle
    /\ ScoreInit
    /\ ScoreInputInit
    /\ RecommendInit
    /\ RecommendInputIdle
    /\ RagInit
    /\ MergeInit
    /\ MergeInputIdle
    /\ ContextInit
    /\ ContextInputIdle
    /\ RagProviderIdle

SpecScore == InitScore /\ [][NextScore]_vars

\* the recommendations over every assessment and finding list of the model
InitRecommend ==
    /\ IndexInit
    /\ ConcInit
    /\ GraphInit
    /\ ProviderIdle
    /\ GraphConcInit
    /\ AnalyzeInit
    /\ AnalyzeProviderIdle
    /\ ScoreInit
    /\ ScoreInputIdle
    /\ RecommendInit
    /\ RecommendInputInit
    /\ RagInit
    /\ MergeInit
    /\ MergeInputIdle
    /\ ContextInit
    /\ ContextInputIdle
    /\ RagProviderIdle

SpecRecommend == InitRecommend /\ [][NextRecommend]_vars

\* questions over every index, graph and generation outcome of the model
InitRag ==
    /\ vectors_file \in RagIndexes
    /\ search_result = <<>>
    /\ idx_op = NoOp
    /\ ConcInit
    /\ kg_file \in RagGraphs
    /\ kg_result = NoKgResult
    /\ kg_op = NoKgOp
    /\ ProviderIdle
    /\ GraphConcInit
    /\ AnalyzeInit
    /\ AnalyzeProviderIdle
    /\ ScoreInit
    /\ ScoreInputIdle
    /\ RecommendInit
    /\ RecommendInputIdle
    /\ RagInit
    /\ MergeInit
    /\ MergeInputIdle
    /\ ContextInit
    /\ ContextInputIdle
    /\ RagProviderInit

SpecRag == InitRag /\ [][NextRag]_vars

\* the merge over every node list and edge list of the model
InitMerge ==
    /\ IndexInit
    /\ ConcInit
    /\ GraphInit
    /\ ProviderIdle
    /\ GraphConcInit
    /\ AnalyzeInit
    /\ AnalyzeProviderIdle
    /\ ScoreInit
    /\ ScoreInputIdle
    /\ RecommendInit
    /\ RecommendInputIdle
    /\ RagInit
    /\ RagProviderIdle
    /\ MergeInit
    /\ MergeInputInit
    /\ ContextInit
    /\ ContextInputIdle

SpecMerge == InitMerge /\ [][NextMerge]_vars

\* the merge over every pair of nodes
InitSimilar ==
    /\ IndexInit
    /\ ConcInit
    /\ GraphInit
    /\ ProviderIdle
    /\ GraphConcInit
    /\ AnalyzeInit
    /\ AnalyzeProviderIdle
    /\ ScoreInit
    /\ ScoreInputIdle
    /\ RecommendInit
    /\ RecommendInputIdle
    /\ RagInit
    /\ RagProviderIdle
    /\ MergeInit
    /\ SimilarInputInit
    /\ ContextInit
    /\ ContextInputIdle

SpecSimilar == InitSimilar /\ [][NextMerge]_vars

\* the context text over every item list of the model
InitContext ==
    /\ IndexInit
    /\ ConcInit
    /\ GraphInit
    /\ ProviderIdle
    /\ GraphConcInit
    /\ AnalyzeInit
    /\ AnalyzeProviderIdle
    /\ ScoreInit
    /\ ScoreInputIdle
    /\ RecommendInit
    /\ RecommendInputIdle
    /\ RagInit
    /\ RagProviderIdle
    /\ MergeInit
    /\ MergeInputIdle
    /\ ContextInit
    /\ ContextInputInit

SpecContext == InitContext /\ [][NextContext]_vars

\* one index or delete request per process, the two running side by side
InitPair ==
    /\ PairInit
    /\ GraphInit
    /\ ProviderIdle
    /\ GraphConcInit
    /\ AnalyzeInit
    /\ AnalyzeProviderIdle
    /\ ScoreInit
    /\ ScoreInputIdle
    /\ RecommendInit
    /\ RecommendInputIdle
    /\ RagInit
    /\ RagProviderIdle
    /\ MergeInit
    /\ MergeInputIdle
    /\ ContextInit
    /\ ContextInputIdle

SpecPair == InitPair /\ [][NextPair]_vars

\* the vector index while no embedding provider answers
SpecDegraded == Init /\ [][NextDegraded]_vars

\* the knowledge graph file under concurrent requests
SpecGraphConc == Init /\ [][NextGraphConc]_vars

\* the vector store shared by concurrent requests
SpecVecConc == Init /\ [][NextVecConc]_vars

-----------------------------------------------------------------------------
(* Properties of the vector index *)

\* C4: a search returns segments in non-increasing order of similarity, segments
\* of equal similarity in insertion order (document order, then segment order),
\* each returned entry is an indexed segment with its own similarity, and with
\* top_k at least the number of indexed segments every one is returned once.
SearchRankedStable ==
    idx_op.op = "search" =>
        LET segs == all_segments(load_vectors(vectors_file))
            q == ProviderEmbedding(idx_op.query)
            r == search_result
            n == Len(r)
        IN /\ \A i, j \in 1..n : i < j => r[i].similarity_score >= r[j].similarity_score
           /\ \E pos \in [1..n -> 1..Len(segs)] :
                /\ \A i \in 1..n :
                     /\ segs[pos[i]].id = r[i].id
                     /\ segs[pos[i]].content = r[i].content
                     /\ segs[pos[i]].vector = r[i].vector
                     /\ r[i].similarity_score = calculate_similarity(q, r[i].vector)
                /\ \A i, j \in 1..n : i < j =>
                     /\ pos[i] # pos[j]
                     /\ (r[i].similarity_score = r[j].similarity_score => pos[i] < pos[j])
           /\ n <= idx_op.top_k
           /\ (idx_op.top_k >= Len(segs) => n = Len(segs))

\* C4 witness: a search over two documents, top_k covering the whole index, that
\* returns a tie and a strict descent
SearchTieReached ==
    /\ idx_op.op = "search"
    /\ LET vd == load_vectors(vectors_file)
           r == search_result
       IN /\ Len(vd) = 2
          /\ \A i \in 1..Len(vd) : Len(vd[i].value.segments) > 0
          /\ idx_op.top_k >= Len(all_segments(vd))
          /\ Len(r) >= 3
          /\ \E i, j \in 1..Len(r) : i < j /\ r[i].similarity_score = r[j].similarity_score
          /\ \E i, j \in 1..Len(r) : i < j /\ r[i].similarity_score > r[j].similarity_score

\* C5: an index request for document d leaves exactly one entry for d, whose
\* segments are the request's segments in order, and leaves the entry of every
\* other document as it was (also when d was indexed before).
ReindexReplacesWholesale ==
    [][idx_op'.op = "index" =>
        LET before == load_vectors(vectors_file)
            after == load_vectors(vectors_file')
            d == idx_op'.doc
            s == idx_op'.segments
        IN /\ Cardinality({i \in 1..Len(after) : after[i].key = d}) = 1
           /\ LET e == DictGet(after, d).segments
              IN /\ Len(e) = Len(s)
                 /\ \A i \in 1..Len(s) : e[i].id = s[i].id /\ e[i].content = s[i].content
           /\ \A o \in Docs \ {d} :
                /\ (o \in DictKeys(before)) = (o \in DictKeys(after))
                /\ (o \in DictKeys(before) => DictGet(after, o) = DictGet(before, o))
      ]_vars

\* C5 witness: d was indexed before with a segment the new request drops, while
\* another document holds segments
ReindexReached ==
    /\ idx_op.op = "index"
    /\ idx_op.reindexed
    /\ LET vd == load_vectors(vectors_file)
       IN \E i \in 1..Len(vd) : vd[i].key # idx_op.doc /\ Len(vd[i].value.segments) > 0

\* C1: a search that runs concurrently with index requests ends without an
\* error and, for every document, saw either the entry of the last completed
\* save or the whole entry of a save in progress, never a missing, empty or
\* partially written index.
SearchSeesWholeEntries ==
    \A p \in Procs :
        (vproc[p].pc = "done" /\ vproc[p].op = "search") =>
            /\ vproc[p].outcome = "ok"
            /\ \A d \in Docs : Entry(vproc[p].observed, d) \in vproc[p].allowed[d]

\* what the last build request collected before the merge
BuiltBeforeMerge == collect(kg_op.doc_ids, ai_extraction, <<>>, <<>>)

NodeIds(nodes) == {nodes[i].id : i \in 1..Len(nodes)}

\* C3: in the graph a build returns and in the graph it persists, the source
\* and the target of every edge are ids of nodes that are in the node list
\* after the merge.
EdgesResolveAfterMerge ==
    kg_op.op = "build" =>
        LET saved == load_knowledge_graph(kg_file)
        IN /\ kg_valid(kg_file.content)
           /\ saved.nodes = kg_result.nodes
           /\ saved.edges = kg_result.edges
           /\ \A i \in 1..Len(saved.edges) :
                /\ saved.edges[i].source \in NodeIds(saved.nodes)
                /\ saved.edges[i].target \in NodeIds(saved.nodes)

\* a build whose merge took away a node that an edge pointed at, as source for
\* one edge and as target for another
MergedEndpointReached ==
    /\ kg_op.op = "build"
    /\ LET before == BuiltBeforeMerge.edges
           gone == NodeIds(BuiltBeforeMerge.nodes) \ NodeIds(kg_result.nodes)
       IN /\ \E i \in 1..Len(before) : before[i].source \in gone
          /\ \E i \in 1..Len(before) : before[i].target \in gone

\* the nodes of the persisted graph whose label contains the name
MatchingIds(entity_name) ==
    LET g == load_knowledge_graph(kg_file)
    IN {g.nodes[i].id : i \in {j \in 1..Len(g.nodes) : matches(g.nodes[j], entity_name)}}

\* C6: a query returns only edges with an endpoint at a node whose label
\* contains entity_name (and of the given relation type), and only nodes that
\* match or sit at the far end of such an edge.
QueryIsSingleHop ==
    kg_op.op = "query" =>
        LET hit == MatchingIds(kg_op.entity_name)
            es == kg_result.edges
            touching == {i \in 1..Len(es) : es[i].source \in hit \/ es[i].target \in hit}
        IN /\ \A i \in 1..Len(es) :
                /\ i \in touching
                /\ kg_op.relation_type # None => es[i].relation = kg_op.relation_type
           /\ \A n \in NodeIds(kg_result.nodes) :
                \/ n \in hit
                \/ \E i \in touching : n \in {es[i].source, es[i].target}

\* the entities and the relationships of each document of the last build
DocEntities(d) == extract_entities_from_document(d, ai_extraction, 0)
DocRelationships(d) == find_relationships(DocEntities(d), 0)

InTable(c1, c2) == \E r \in relation_map : r[1] = c1 /\ r[2] = c2

\* the relationships between two entities, in either direction
Between(rs, e1, e2) ==
    {i \in 1..Len(rs) : {rs[i].source, rs[i].target} = {e1.id, e2.id}}

\* C7: every inferred relationship joins two entities of different categories
\* of the same segment and carries the table's relation for (source category,
\* target category); two entities whose categories are in the table in neither
\* order have no relationship; two entities of one segment whose categories
\* are in the table have exactly one.
RelationshipsFollowTable ==
    kg_op.op = "build" =>
        \A k \in 1..Len(kg_op.doc_ids) :
            LET es == DocEntities(kg_op.doc_ids[k])
                rs == DocRelationships(kg_op.doc_ids[k])
            IN /\ \A i \in 1..Len(rs) :
                    \E a, b \in 1..Len(es) :
                        /\ rs[i].source = es[a].id
                        /\ rs[i].target = es[b].id
                        /\ es[a].category # es[b].category
                        /\ es[a].segment_id = es[b].segment_id
                        /\ <<es[a].category, es[b].category, rs[i].relation>> \in relation_map
               /\ \A a, b \in 1..Len(es) :
                    a < b =>
                        LET listed == InTable(es[a].category, es[b].category)
                                      \/ InTable(es[b].category, es[a].category)
                            together == es[a].segment_id = es[b].segment_id
                        IN Cardinality(Between(rs, es[a], es[b])) =
                               IF listed /\ together THEN 1 ELSE 0

\* a build of a document with a relationship, with two entities of one segment
\* whose categories are not in the table, and with two entities of listed
\* categories in different segments
RelationshipCasesReached ==
    /\ kg_op.op = "build"
    /\ \E k \in 1..Len(kg_op.doc_ids) :
         LET es == DocEntities(kg_op.doc_ids[k])
             rs == DocRelationships(kg_op.doc_ids[k])
         IN /\ Len(rs) > 0
            /\ \E a, b \in 1..Len(es) :
                 /\ es[a].segment_id = es[b].segment_id
                 /\ es[a].category # es[b].category
                 /\ ~InTable(es[a].category, es[b].category)
                 /\ ~InTable(es[b].category, es[a].category)
            /\ \E a, b \in 1..Len(es) :
                 /\ es[a].segment_id # es[b].segment_id
                 /\ InTable(es[a].category, es[b].category)

\* C2: a finished query or statistics read has loaded the empty graph or the
\* whole graph of one build, and when no build is writing, the persisted file
\* is the whole output of one build.
GraphReadsWholeBuilds ==
    /\ \A p \in Procs :
         (kproc[p].pc = "done" /\ kproc[p].op \in GraphReads) =>
             /\ kproc[p].outcome = "ok"
             /\ kproc[p].observed \in {EmptyGraph} \cup kbuilt
    /\ ((\A p \in Procs : kproc[p].pc \notin {"open", "write"}) /\ kg_file.exists) =>
             /\ kg_valid(kg_file.content)
             /\ load_knowledge_graph(kg_file) \in kbuilt

\* C8: whatever analyze returns carries a risk_score, and the score is within
\* [0,1] (0..100 hundredths).
AnalyzeScoreInUnitRange ==
    an_op.op = "analyze" =>
        /\ "risk_score" \in DOMAIN an_result
        /\ an_result.risk_score >= 0
        /\ an_result.risk_score <= 100

\* C9: with regulations found and a judgment that has a status, a level and a
\* numeric confidence, the risk score is base(status) * multiplier(level) *
\* confidence, clamped to [0,1] and rounded to a nearest hundredth, with base
\* 0.1 / 0.9 / 0.6 / 0.5 for Compliant / Violation / Risk / anything else and
\* multiplier 0.3 / 1.0 / 0.6 for Low / High / anything else; {Violation, High,
\* 0.9} gives 0.81.
RiskScoreIsClampedProduct ==
    (sc_done /\ sc_in.kind = "json" /\ sc_in.json.present = JudgmentKeys
        /\ sc_in.json.confidence.ty = "num") =>
        LET j == sc_in.json
            base == IF j.compliance_status = "Compliant" THEN 1
                    ELSE IF j.compliance_status = "Violation" THEN 9
                    ELSE IF j.compliance_status = "Risk" THEN 6 ELSE 5
            multiplier == IF j.risk_level = "Low" THEN 3
                          ELSE IF j.risk_level = "High" THEN 10 ELSE 6
            product == base * multiplier * j.confidence.n
            clamped == IF product < 0 THEN 0 ELSE IF product > 10000 THEN 10000 ELSE product
            off == sc_out.risk_score * 100 - clamped
        IN /\ sc_out.raised = ""
           /\ sc_out.compliance_status = j.compliance_status
           /\ sc_out.risk_level = j.risk_level
           /\ off <= 50 /\ off >= 0 - 50
           /\ (j.compliance_status = "Violation" /\ j.risk_level = "High"
                 /\ j.confidence.n = 90) => sc_out.risk_score = 81

\* the judgment {Violation, High, 0.9} assessed as 0.81
ViolationHighScored ==
    /\ sc_done
    /\ sc_in = Response("json", Judgment(JudgmentKeys, "Violation", "High", Num(90)))
    /\ sc_out.raised = ""
    /\ sc_out.risk_score = 81

\* C10: an analyze call whose retrieval finds no segment returns and persists
\* status Unknown, level Medium, score 0.5, makes no generation request and
\* reports no error.
NoRegulationsGivesUnknown ==
    (an_op.op = "analyze" /\ an_op.found = 0) =>
        /\ "error" \notin DOMAIN an_result
        /\ an_result.compliance_status = "Unknown"
        /\ an_result.overall_risk_level = "Medium"
        /\ an_result.risk_score = 50
        /\ an_op.calls = 0
        /\ Len(an_saved) > 0
        /\ an_saved[Len(an_saved)] = an_result

\* the regulations the last analyze call retrieved, and those it checked
RetrievedRegulations ==
    find_similar_segments(load_vectors(vectors_file), an_op.business_data, 10)
CheckedRegulations ==
    SelectSeq(Take(RetrievedRegulations, 5), LAMBDA r : r.similarity_score * 10 > 7 * SimScale)

\* the generation step of a regulation's check gave no usable finding
CheckFailed(content) ==
    LET response == an_provider.checks[content]
    IN \/ response.kind # "json"
       \/ "is_violation" \notin response.json.present
       \/ "has_risk" \notin response.json.present

\* C11: when the assessment itself went through, a checked regulation whose
\* generation step failed (no JSON object, malformed JSON, an object without
\* is_violation or has_risk) appears in the warnings as the fixed 'requires
\* manual review' finding, and the call does not return an error result.
FailedChecksBecomeManualReview ==
    (an_op.op = "analyze"
        /\ \A ra \in _assess_compliance_risk(RetrievedRegulations, an_provider.judgment) :
              ra.raised = "") =>
        \A i \in 1..Len(CheckedRegulations) :
            CheckFailed(CheckedRegulations[i].content) =>
                /\ "error" \notin DOMAIN an_result
                /\ \E w \in 1..Len(an_result.warning_items) :
                     LET f == an_result.warning_items[w]
                     IN /\ f.regulation_content = CheckedRegulations[i].content
                        /\ f.is_violation = FALSE
                        /\ f.has_risk = TRUE
                        /\ f.severity = "moderate"
                        /\ f.violation_reason = "Requires manual review"

\* C12: the recommendations are the first 8 lines of: the status block (for
\* Violation the stop line and one line per severe violation in finding order,
\* for Risk the review line and one line per warning in finding order, nothing
\* otherwise), then one line for the risk level (counsel for High, training for
\* Medium, maintain otherwise), then the two general lines.
RecommendationsInOrder ==
    rc_done =>
        LET status == rc_in.risk_assessment.compliance_status
            level == rc_in.risk_assessment.risk_level
            vs == rc_in.detailed_analysis.violations
            ws == rc_in.detailed_analysis.warnings
            severe == {i \in 1..Len(vs) : "severity" \in vs[i].present /\ vs[i].severity = "severe"}
            \* the k-th severe violation, in finding order
            nth(k) == CHOOSE i \in severe : Cardinality({j \in severe : j <= i}) = k
            block == IF status = "Violation" THEN 1 + Cardinality(severe)
                     ELSE IF status = "Risk" THEN 1 + Len(ws) ELSE 0
            expected(n) ==
                IF n > block + 1 THEN Line(IF n = block + 2 THEN "general_1" ELSE "general_2", <<>>)
                ELSE IF n = block + 1
                     THEN Line(IF level = "High" THEN "counsel"
                               ELSE IF level = "Medium" THEN "training" ELSE "maintain", <<>>)
                ELSE IF status = "Violation"
                     THEN IF n = 1 THEN Line("stop", <<>>)
                          ELSE Line("serious",
                                    <<IF "violation_reason" \in vs[nth(n - 1)].present
                                      THEN vs[nth(n - 1)].violation_reason ELSE "Not specified">>)
                ELSE IF n = 1 THEN Line("review", <<>>)
                     ELSE Line("alert", IF "risk_points" \in ws[n - 1].present
                                        THEN ws[n - 1].risk_points ELSE <<>>)
        IN /\ Len(rc_out) = Min(8, block + 3)
           /\ \A n \in 1..Len(rc_out) : rc_out[n] = expected(n)

\* a Violation with a severe violation after one that is not severe, and a
\* Risk with warnings
StatusBlocksReached ==
    /\ rc_done
    /\ rc_in.risk_assessment.compliance_status = "Violation"
    /\ LET vs == rc_in.detailed_analysis.violations
       IN /\ Len(vs) >= 3
          /\ "severity" \notin vs[1].present
          /\ vs[2].severity = "severe"
          /\ "violation_reason" \notin vs[3].present /\ vs[3].severity = "severe"
    /\ Len(rc_out) = 6

\* C13: whatever the status, the risk level, the violations and the warnings,
\* there are at most 8 recommendations.
AtMostEightRecommendations == rc_done => Len(rc_out) <= 8

\* a Risk assessment with five warnings: nine lines were made, eight are kept
CapReached ==
    /\ rc_done
    /\ rc_in.risk_assessment.compliance_status = "Risk"
    /\ Len(rc_in.detailed_analysis.warnings) = MaxChecked
    /\ Len(rc_out) = 8
    /\ rc_out[8].line = "general_1"

\* C14: an ask call whose generation request fails (request error, timeout,
\* bad status, malformed response) returns an answer that carries the error,
\* with confidence 0 and no sources.
GenerationFailureZeroesAnswer ==
    (rag_op.op = "ask" /\ rag_op.generations > 0 /\ rag_provider \in GenerationFailures) =>
        /\ "error" \notin DOMAIN rag_result
        /\ rag_result.answer # "answer"
        /\ rag_result.confidence = 0
        /\ rag_result.sources = <<>>

\* the segments of the stored index, each with the document it is stored under
IndexedSegments ==
    LET vd == load_vectors(vectors_file)
    IN UNION {{[document_id |-> vd[i].key, segment |-> vd[i].value.segments[j]] :
                 j \in 1..Len(vd[i].value.segments)} : i \in 1..Len(vd)}

\* C15: when no indexed segment reaches similarity 0.3 with the question, ask
\* returns the fixed 'no relevant regulatory documents' answer with confidence
\* 0 and no sources, and makes no graph query and no generation request.
NoRetrievalShortCircuits ==
    (rag_op.op = "ask"
        /\ \A s \in IndexedSegments :
             calculate_similarity(ProviderEmbedding(rag_op.question.text), s.segment.vector) * 10
                 < 3 * SimScale) =>
        /\ rag_result.answer = "no relevant regulatory documents found"
        /\ rag_result.confidence = 0
        /\ rag_result.sources = <<>>
        /\ "error" \notin DOMAIN rag_result
        /\ rag_op.kg_queries = 0
        /\ rag_op.generations = 0

\* a question with graph enrichment asked over an index that has segments,
\* none of them similar enough, and a graph that has a matching node
BelowThresholdAsked ==
    /\ rag_op.op = "ask"
    /\ rag_op.use_kg
    /\ IndexedSegments # {}
    /\ rag_op.retrieved = 0
    /\ kg_file.exists /\ kg_valid(kg_file.content)
    /\ Len(query_knowledge_graph(load_knowledge_graph(kg_file), rag_op.question.name, None).nodes) > 0

\* C16: every source of an answer names the document under which its segment
\* was indexed.
SourcesNameTheirDocument ==
    rag_op.op = "ask" =>
        \A i \in 1..Len(rag_result.sources) :
            \E s \in IndexedSegments :
                /\ s.segment.content = rag_result.sources[i].content
                /\ s.document_id = rag_result.sources[i].document_id

\* C17: the sources of a generated answer are the first min(3, n) of the n
\* retrieved segments in rank order, with or without the graph item.
SourcesAreTopRetrieved ==
    (rag_op.op = "ask" /\ rag_op.generations > 0
        /\ rag_result.answer # "Sorry, an error occurred") =>
        LET ranked == retrieve_relevant_documents(load_vectors(vectors_file), rag_op.question,
                                                  rag_op.top_k)
        IN /\ Len(rag_result.sources) = Min(3, Len(ranked))
           /\ \A i \in 1..Len(rag_result.sources) :
                /\ rag_result.sources[i].content = ranked[i].content
                /\ rag_result.sources[i].similarity_x10 = ranked[i].similarity_score * 10

\* C18: without an embedding provider the same text gets the same vector: a
\* search repeated with the same query and top_k over an unchanged index
\* returns the same ranked result.
DegradedSearchRepeats ==
    [][(/\ idx_op.op = "search" /\ idx_op'.op = "search"
        /\ idx_op'.query = idx_op.query /\ idx_op'.top_k = idx_op.top_k
        /\ vectors_file' = vectors_file) => search_result' = search_result]_vars

\* C19: a build that returns normally was given only documents that have
\* stored segments; a document id without segments makes the build fail with
\* NotFound instead of persisting a graph.
BuildRejectsUnknownDocument ==
    kg_op.op = "build" =>
        \A i \in 1..Len(kg_op.doc_ids) : Len(load_segments(kg_op.doc_ids[i])) > 0

StoredGraph == load_knowledge_graph(kg_file)

\* C20: a build of the same document ids right after a build of them stores a
\* graph with the node count and the edge count of the first; and the graph a
\* build stores holds nothing of the graph it replaced: every node belongs to
\* a document of this build.
RebuildKeepsCounts ==
    kg_op.op = "build" =>
        /\ kg_op.rebuild =>
             /\ Len(StoredGraph.nodes) = kg_op.nodes_before
             /\ Len(StoredGraph.edges) = kg_op.edges_before
        /\ StoredGraph.metadata.total_nodes = Len(StoredGraph.nodes)
        /\ StoredGraph.metadata.total_edges = Len(StoredGraph.edges)
        /\ \A i \in 1..Len(StoredGraph.nodes) :
             \E k \in 1..Len(kg_op.doc_ids) : StoredGraph.nodes[i].document_id = kg_op.doc_ids[k]

\* the same documents built twice in a row, with nodes and edges in the graph
RebuiltWithEdges ==
    /\ kg_op.op = "build"
    /\ kg_op.rebuild
    /\ kg_op.nodes_before > 1
    /\ kg_op.edges_before > 0
    /\ Len(StoredGraph.edges) > 0

\* the entity texts an extraction result yields, category by category
Yielded(entities) ==
    Concat([k \in 1..Len(Categories) |->
              [j \in 1..Len(entities[Categories[k]]) |->
                  [text |-> entities[Categories[k]][j], category |-> Categories[k]]]])

\* the entities a build made from one segment of a document
MadeFrom(d, segment) == SelectSeq(DocEntities(d), LAMBDA e : e.segment_id = segment.id)

\* C21: an entity made from a segment has confidence 0.8 when the
\* model-driven extraction gave the segment's entities and 0.6 when the
\* rule-based fallback gave them.
ConfidenceTellsStrategy ==
    kg_op.op = "build" =>
        \A k \in 1..Len(kg_op.doc_ids) :
            LET d == kg_op.doc_ids[k]
                segments == load_segments(d)
            IN \A s \in 1..Len(segments) :
                 LET made == MadeFrom(d, segments[s])
                     by_model == Len(Yielded(ai_extraction[segments[s].content])) > 0
                 IN \A i \in 1..Len(made) :
                      made[i].confidence = IF by_model THEN 80 ELSE 60

\* C22: the entities of a segment are exactly those of the model-driven
\* extraction when it yields at least one entity, and exactly those of the
\* rule-based extraction when it yields none.
FallbackRunsWhenModelYieldsNone ==
    kg_op.op = "build" =>
        \A k \in 1..Len(kg_op.doc_ids) :
            LET d == kg_op.doc_ids[k]
                segments == load_segments(d)
            IN \A s \in 1..Len(segments) :
                 LET made == MadeFrom(d, segments[s])
                     by_model == Yielded(ai_extraction[segments[s].content])
                     by_rules == Yielded(_local_entity_extraction(segments[s].content))
                 IN [i \in 1..Len(made) |-> [text |-> made[i].text, category |-> made[i].category]]
                        = IF Len(by_model) > 0 THEN by_model ELSE by_rules

\* the number of positions at which two labels agree
RECURSIVE Agreeing(_, _)
Agreeing(l1, l2) ==
    IF Len(l1) = 0 \/ Len(l2) = 0 THEN 0
    ELSE (IF Head(l1) = Head(l2) THEN 1 ELSE 0) + Agreeing(Tail(l1), Tail(l2))

\* equal, or both of length 3 or more and agreeing at 0.8 of the longer length
SimilarLabelsRule(l1, l2) ==
    \/ l1 = l2
    \/ /\ Len(l1) >= 3 /\ Len(l2) >= 3
       /\ 5 * Agreeing(l1, l2) >= 4 * (IF Len(l1) > Len(l2) THEN Len(l1) ELSE Len(l2))

\* C23: the similarity test holds for two labels exactly when they are equal
\* or both have length 3 or more and agree at 0.8 of the longer length or
\* more; it is symmetric; and of two nodes the second is merged into the first
\* exactly when they have the same type and similar labels.
SimilarityIsThresholdRule ==
    mg_done /\ Len(mg_in.nodes) = 2 =>
        LET n1 == mg_in.nodes[1]
            n2 == mg_in.nodes[2]
        IN /\ _is_similar_text(n1.label, n2.label) = SimilarLabelsRule(n1.label, n2.label)
           /\ _is_similar_text(n1.label, n2.label) = _is_similar_text(n2.label, n1.label)
           /\ mg_out.nodes = IF n1.type = n2.type /\ SimilarLabelsRule(n1.label, n2.label)
                             THEN <<n1>> ELSE <<n1, n2>>

\* 'price fixing' and 'price fixings' under one type, merged into one node
TwelveOfThirteenMerged ==
    /\ mg_done
    /\ Len(mg_in.nodes) = 2
    /\ mg_in.nodes[1].label = PriceFixing
    /\ mg_in.nodes[2].label = PriceFixings
    /\ mg_in.nodes[1].type = mg_in.nodes[2].type
    /\ Len(mg_out.nodes) = 1

\* C24: the merge leaves the edge list with its length and its edge ids in
\* their order, also when two edges come out with the same source, target
\* and relation.
MergeKeepsEveryEdge ==
    mg_done =>
        /\ Len(mg_out.edges) = Len(mg_in.edges)
        /\ \A i \in 1..Len(mg_in.edges) :
             /\ mg_out.edges[i].id = mg_in.edges[i].id
             /\ mg_out.edges[i].relation = mg_in.edges[i].relation

\* a merge after which two edges have the same source, target and relation
DuplicateEdgesKept ==
    /\ mg_done
    /\ Len(mg_out.nodes) < Len(mg_in.nodes)
    /\ \E i, j \in 1..Len(mg_out.edges) :
         /\ i < j
         /\ mg_out.edges[i].source = mg_out.edges[j].source
         /\ mg_out.edges[i].target = mg_out.edges[j].target
         /\ mg_out.edges[i].relation = mg_out.edges[j].relation
         /\ \/ mg_in.edges[i].source # mg_in.edges[j].source
            \/ mg_in.edges[i].target # mg_in.edges[j].target

\* same type and labels similar by the threshold rule
Mergeable(n1, n2) == n1.type = n2.type /\ SimilarLabelsRule(n1.label, n2.label)

\* C28: after the merge no two surviving nodes have the same type and similar
\* labels; the survivors are input nodes in input order, and every node that
\* was removed has an earlier survivor of its type with a similar label; a
\* second merge of the output removes no node and rewrites no edge.
MergeLeavesNoSimilarPair ==
    mg_done =>
        LET out == mg_out.nodes
            kept == {out[i].id : i \in 1..Len(out)}
        IN /\ \A i, j \in 1..Len(out) : i < j => ~Mergeable(out[i], out[j])
           /\ out = SelectSeq(mg_in.nodes, LAMBDA n : n.id \in kept)
           /\ \A r \in 1..Len(mg_in.nodes) :
                mg_in.nodes[r].id \notin kept =>
                    \E s \in 1..(r - 1) : /\ mg_in.nodes[s].id \in kept
                                          /\ Mergeable(mg_in.nodes[s], mg_in.nodes[r])
           /\ _merge_similar_entities(mg_out.nodes, mg_out.edges) = mg_out

\* a merge that is no transitive closure: a removed node is similar to a
\* survivor other than the one it went into, and those two survivors are not
\* similar to each other
ChainNotClosed ==
    /\ mg_done
    /\ \E r \in 1..Len(mg_in.nodes) :
         /\ \A k \in 1..Len(mg_out.nodes) : mg_out.nodes[k].id # mg_in.nodes[r].id
         /\ \E i, j \in 1..Len(mg_out.nodes) :
              /\ i < j
              /\ Mergeable(mg_out.nodes[i], mg_in.nodes[r])
              /\ Mergeable(mg_out.nodes[j], mg_in.nodes[r])
              /\ ~Mergeable(mg_out.nodes[i], mg_out.nodes[j])

\* the category whose entities have the type
CategoryOfType(type) == CHOOSE c \in CategorySet : entity_types(c) = type

\* C29: in the graph a build stores, every edge joins two different nodes and
\* its relation is the table's relation for the category of its source node
\* and the category of its target node.
MergedEdgesKeepRelation ==
    kg_op.op = "build" =>
        \A i \in 1..Len(StoredGraph.edges) :
            LET e == StoredGraph.edges[i]
            IN /\ e.source # e.target
               /\ \E a, b \in 1..Len(StoredGraph.nodes) :
                    /\ StoredGraph.nodes[a].id = e.source
                    /\ StoredGraph.nodes[b].id = e.target
                    /\ <<CategoryOfType(StoredGraph.nodes[a].type),
                         CategoryOfType(StoredGraph.nodes[b].type), e.relation>> \in relation_map

\* a stored graph with an edge whose source the merge rewrote and an edge
\* whose target it rewrote
RewrittenEdgesStored ==
    /\ kg_op.op = "build"
    /\ Len(StoredGraph.edges) = Len(BuiltBeforeMerge.edges)
    /\ \E i \in 1..Len(StoredGraph.edges) :
         StoredGraph.edges[i].source # BuiltBeforeMerge.edges[i].source
    /\ \E i \in 1..Len(StoredGraph.edges) :
         StoredGraph.edges[i].target # BuiltBeforeMerge.edges[i].target

\* the length of the doc_text of the first i items together
RECURSIVE WholeLength(_, _)
WholeLength(docs, i) == IF i = 0 THEN 0 ELSE WholeLength(docs, i - 1) + PrefixLen + docs[i]

\* C26: the context holds, in order, the items that fit whole in the budget
\* one after the other; the first item that does not fit follows, cut to the
\* remaining budget and marked with an ellipsis, when 100 characters or more
\* of the budget remain, and is left out otherwise; nothing follows it.
ContextFillsBudget ==
    ctx_done =>
        LET fitting == {i \in 0..Len(ctx_in) : WholeLength(ctx_in, i) <= max_length}
            k == CHOOSE i \in fitting : \A j \in fitting : j <= i
            remaining == max_length - WholeLength(ctx_in, k)
            whole == [i \in 1..k |-> ContextPart(i, PrefixLen + ctx_in[i], FALSE)]
        IN ctx_out = IF k < Len(ctx_in) /\ remaining >= MinRemaining
                     THEN Append(whole, ContextPart(k + 1, remaining, TRUE))
                     ELSE whole

\* C25: with graph enrichment, the context is the retrieved items in their
\* order, with one graph item of similarity 0.9 in front when a stored node's
\* label contains the question and nothing in front otherwise, an unreadable
\* graph included; the list of retrieved items is what it was before the call.
EnrichmentPrependsOneItem ==
    (rag_op.op = "ask" /\ rag_op.use_kg /\ rag_op.retrieved > 0) =>
        LET ranked == retrieve_relevant_documents(load_vectors(vectors_file), rag_op.question,
                                                  rag_op.top_k)
            retrieved == [i \in 1..Len(ranked) |-> ContextItem(ranked[i])]
            readable == ~kg_file.exists \/ kg_valid(kg_file.content)
            hit == readable /\ MatchingIds(rag_op.question.name) # {}
            context == rag_op.enhanced_docs
        IN /\ rag_op.retrieved_docs = retrieved
           /\ rag_result.retrieval_count = Len(retrieved)
           /\ Len(context) = Len(retrieved) + (IF hit THEN 1 ELSE 0)
           /\ SubSeq(context, Len(context) - Len(retrieved) + 1, Len(context)) = retrieved
           /\ hit => /\ context[1].has_source /\ context[1].source = "knowledge_graph"
                     /\ context[1].similarity_x10 = 9 * SimScale
           /\ \A i \in 1..Len(retrieved) : ~retrieved[i].has_source

\* a question asked with enrichment whose context starts with the graph item,
\* followed by three retrieved items
GraphItemPrepended ==
    /\ rag_op.op = "ask"
    /\ rag_op.use_kg
    /\ rag_op.retrieved = 3
    /\ Len(rag_op.enhanced_docs) = 4
    /\ rag_op.enhanced_docs[1].has_source

\* C27: when an index request and an index or delete request on another
\* document have both returned without error, in whatever order their steps
\* ran, the stored index holds the entry of each index request and no entry
\* of a deleted document.
BothEffectsStored ==
    \A p, q \in Procs :
        (/\ p # q
         /\ vproc[p].pc = "done" /\ vproc[q].pc = "done"
         /\ vproc[p].outcome = "ok" /\ vproc[q].outcome = "ok"
         /\ vproc[p].op = "index"
         /\ vproc[p].doc # vproc[q].doc) =>
            /\ json_valid(vectors_file.content)
            /\ Entry(load_vectors(vectors_file), vproc[p].doc)
                   = index_data(vproc[p].doc, vproc[p].segments)
            /\ vproc[q].op = "index" =>
                   Entry(load_vectors(vectors_file), vproc[q].doc)
                       = index_data(vproc[q].doc, vproc[q].segments)
            /\ vproc[q].op = "delete" =>
                   vproc[q].doc \notin DictKeys(load_vectors(vectors_file))

\* C30: an analyze call that returns the 'Analysis Failed' result leaves the
\* persisted analyses as they were, and every other analyze call adds its
\* result to them, after the earlier ones, which stay as they are.
AnalysesPersistOnce ==
    [][an_issued' # an_issued =>
          an_saved' = IF "error" \in DOMAIN an_result' THEN an_saved
                      ELSE Append(an_saved, an_result')]_vars

====
